---- MODULE Spec2Model ----
(***************************************************************************)
(* MicoJoystick: PC analogue joystick driver for the MicroDigital Mico.    *)
(* A state-machine model of the driver module (c.MicoJoy): the SWI         *)
(* handler, the star commands, the ticker and callback handlers, and the   *)
(* private functions they call.                                            *)
(*                                                                         *)
(* C `unsigned int` is 32 bits wide.  A 32-bit pattern is held as the      *)
(* integer in -2^31 .. 2^31-1 that is congruent to it modulo 2^32 (its     *)
(* two's complement reading), because the model checker's integers are     *)
(* themselves 32 bits wide.  Add32, Sub32, Mul32 wrap as the hardware      *)
(* does; LtU, LeU, DivU and ShrU read the pattern as unsigned.             *)
(***************************************************************************)
EXTENDS Integers, Sequences, FiniteSets, TLC

----------------------------------------------------------------------------
(* 32-bit arithmetic *)

K16 == 256 * 256
K15 == 128 * 256
K30 == K15 * K15

Lo16(a) == a % K16
Hi16(a) == ((a - (a % K16)) \div K16) % K16
Make32(h, l) == IF h >= K15 THEN ((h - K16) * K16) + l ELSE (h * K16) + l

Small30(a) == a >= -K30 /\ a < K30

Add32(a, b) ==
  IF Small30(a) /\ Small30(b) THEN a + b
  ELSE LET l == Lo16(a) + Lo16(b)
           h == (Hi16(a) + Hi16(b) + (l \div K16)) % K16
       IN Make32(h, l % K16)

Sub32(a, b) ==
  IF Small30(a) /\ Small30(b) THEN a - b
  ELSE LET l == Lo16(a) - Lo16(b)
           h == (Hi16(a) - Hi16(b) + (l \div K16)) % K16
       IN Make32(h, l % K16)

\* p*q for 16-bit p, q, as <<high 16 bits, low 16 bits>>
Mul16(p, q) ==
  LET t0 == p * (q % 256)
      t1 == p * (q \div 256)
      s  == t0 + ((t1 % 256) * 256)
  IN << ((t1 \div 256) + (s \div K16)) % K16, s % K16 >>

Mul32(a, b) ==
  IF a > -K15 /\ a < K15 /\ b > -K15 /\ b < K15 THEN a * b
  ELSE LET ll == Mul16(Lo16(a), Lo16(b))
           hl == Mul16(Hi16(a), Lo16(b))[2]
           lh == Mul16(Lo16(a), Hi16(b))[2]
       IN Make32((ll[1] + hl + lh) % K16, ll[2])

\* unsigned comparisons of 32-bit patterns
LtU(a, b) == IF (a < 0) = (b < 0) THEN a < b ELSE b < 0
LeU(a, b) == a = b \/ LtU(a, b)
GtU(a, b) == LtU(b, a)
GeU(a, b) == LeU(b, a)

\* unsigned division by a small positive constant k (k < 2^15)
DivU(a, k) ==
  IF a >= 0 THEN a \div k
  ELSE LET h == Hi16(a)
           l == Lo16(a)
           r == h % k
       IN Make32(h \div k, ((r * K16) + l) \div k)

\* unsigned right shift by n, 14 <= n <= 31; the result is below 2^18
Pow2(n) == IF n = 0 THEN 1 ELSE IF n = 6 THEN 64 ELSE IF n = 2 THEN 4 ELSE 16384
ShrU(a, n) ==
  IF n >= 16 THEN Hi16(a) \div Pow2(n - 16)
  ELSE (Hi16(a) * Pow2(16 - n)) + (Lo16(a) \div Pow2(n))

----------------------------------------------------------------------------
(* Program constants *)

MAX_GRANULARITY == 30
MAX_AXIS_WAIT_TIME == 2000
POLL_FREQUENCY == 7
NUM_STICKS == 2
NUM_TEST_RUNS == 32
SCALER_FRAC_SHIFT == 14
CALIB_NONE == 0
CALIB_TOP_RIGHT == 1
CALIB_BOTTOM_LEFT == 2
UINT_MAX == -1                \* the pattern 0xffffffff
TIMER_PERIOD == 20000         \* IOC timer 0 counts down from 19999 to 0
SETTLE_LOOPS == 8             \* go_go_go
REINIT_AXIS == 800            \* cached timing "in case axes time out"
SCALER_ONE == 536870912       \* 32768 << SCALER_FRAC_SHIFT

Sticks == 0 .. (NUM_STICKS - 1)

\* an array indexed by stick number, built element by element
Arr(F(_)) == (0 :> F(0)) @@ (1 :> F(1))

\* Gameport status bits, by bit number: a mask is the set of its bit numbers.
PC_JOY_A_X == 0
PC_JOY_A_Y == 1
PC_JOY_B_X == 2
PC_JOY_B_Y == 3
PC_JOY_A_B1 == 4
PC_JOY_A_B2 == 5
PC_JOY_B_B1 == 6
PC_JOY_B_B2 == 7
AxisBits == {PC_JOY_A_X, PC_JOY_A_Y, PC_JOY_B_X, PC_JOY_B_Y}
\* a value per axis bit, built element by element
Arr4(F(_)) == (PC_JOY_A_X :> F(PC_JOY_A_X)) @@ (PC_JOY_A_Y :> F(PC_JOY_A_Y))
                @@ (PC_JOY_B_X :> F(PC_JOY_B_X)) @@ (PC_JOY_B_Y :> F(PC_JOY_B_Y))
XBit(s) == IF s = 0 THEN PC_JOY_A_X ELSE PC_JOY_B_X
YBit(s) == IF s = 0 THEN PC_JOY_A_Y ELSE PC_JOY_B_Y

\* Directional bias flags of get_av_stick_pos, as a set of flag names.
X_BIAS_MIN == "X_BIAS_MIN"
X_BIAS_MAX == "X_BIAS_MAX"
Y_BIAS_MIN == "Y_BIAS_MIN"
Y_BIAS_MAX == "Y_BIAS_MAX"

\* variant: calib_status ^= bit
BitXor(a, b) == IF (a \div b) % 2 = 1 THEN a - b ELSE a + b

\* calib_status |= bit, for calib_status in 0..3 and bit in {1, 2}
BitOr(a, b) == IF (a \div b) % 2 = 1 THEN a ELSE a + b

\* the block OS_ReadArgs leaves for an evaluated argument: a type byte (0:
\* integer) and the four bytes of the value, least significant first
IntBlock(v) == <<0, Lo16(v) % 256, Lo16(v) \div 256, Hi16(v) % 256, Hi16(v) \div 256>>
StrBlock == <<1, 0, 0, 0, 0>>

eval_expr(buffer) ==
  IF buffer[1] = 0
  THEN Make32((buffer[5] * 256) + buffer[4], (buffer[3] * 256) + buffer[2])
  ELSE 0

\* the absdiff macro (unsigned operands)
absdiff(x, y) == IF GtU(x, y) THEN Sub32(x, y) ELSE Sub32(y, x)

\* variant: the division is made on signed operands
signed_divide(dividend, divisor) ==
  IF divisor > 0 THEN dividend \div divisor
  ELSE IF divisor < 0 THEN 0 - (dividend \div (0 - divisor))
  ELSE 0

\* the safedivide macro: dividend and divisor are unsigned, the dividend here
\* is always 32768 << 14 = 2^29, so a divisor with the top bit set gives 0
safedivide(dividend, divisor) ==
  IF divisor # 0
  THEN (IF divisor < 0 THEN 0 ELSE dividend \div divisor)
  ELSE 0

----------------------------------------------------------------------------
(* recalc_coefficients: c is the record of calibration arrays *)

recalc_stick(c, s, cz, ez) ==
  LET x_ctr_dz == IF cz THEN c.x_ctr_deadz[s] ELSE 0
      y_ctr_dz == IF cz THEN c.y_ctr_deadz[s] ELSE 0
      xcl == Sub32(c.x_ctr[s], x_ctr_dz)
      xch == Add32(c.x_ctr[s], x_ctr_dz)
      ycl == Sub32(c.y_ctr[s], y_ctr_dz)
      ych == Add32(c.y_ctr[s], y_ctr_dz)
      x_end_dz == IF ez THEN c.x_end_deadz[s] ELSE 0
      y_end_dz == IF ez THEN c.y_end_deadz[s] ELSE 0
  IN [c EXCEPT
        !.x_ctr_low[s] = xcl,
        !.x_ctr_high[s] = xch,
        !.y_ctr_low[s] = ycl,
        !.y_ctr_high[s] = ych,
        !.x_low_scaler[s] =
            safedivide(SCALER_ONE, Sub32(xcl, Add32(c.x_min[s], x_end_dz))),
        !.x_high_scaler[s] =
            safedivide(SCALER_ONE, Sub32(Sub32(c.x_max[s], x_end_dz), xch)),
        !.y_low_scaler[s] =
            safedivide(SCALER_ONE, Sub32(ycl, Add32(c.y_min[s], y_end_dz))),
        !.y_high_scaler[s] =
            safedivide(SCALER_ONE, Sub32(Sub32(c.y_max[s], y_end_dz), ych))]

recalc_coefficients(sticks, c, cz, ez) ==
  LET c1 == IF 1 \in sticks THEN recalc_stick(c, 1, cz, ez) ELSE c
  IN IF 0 \in sticks THEN recalc_stick(c1, 0, cz, ez) ELSE c1

----------------------------------------------------------------------------
(* smooth_value *)

\* variant: the parentheses around the weighted sum are missing
smooth_value_unbracketed(prev_value, new_value, stddev) ==
  IF GeU(new_value, Sub32(prev_value, stddev))
       /\ LeU(new_value, Add32(prev_value, stddev))
  THEN Add32(Mul32(prev_value, 3), DivU(new_value, 4))
  ELSE IF GeU(new_value, Sub32(prev_value, Mul32(stddev, 2)))
            /\ LeU(new_value, Add32(prev_value, Mul32(stddev, 2)))
  THEN Add32(prev_value, DivU(new_value, 2))
  ELSE IF GeU(new_value, Sub32(prev_value, Mul32(stddev, 4)))
            /\ LeU(new_value, Add32(prev_value, Mul32(stddev, 4)))
  THEN Add32(Mul32(new_value, 3), DivU(prev_value, 4))
  ELSE new_value

smooth_value(prev_value, new_value, stddev) ==
  IF GeU(new_value, Sub32(prev_value, stddev))
       /\ LeU(new_value, Add32(prev_value, stddev))
  THEN DivU(Add32(Mul32(prev_value, 3), new_value), 4)
  ELSE IF GeU(new_value, Sub32(prev_value, Mul32(stddev, 2)))
            /\ LeU(new_value, Add32(prev_value, Mul32(stddev, 2)))
  THEN DivU(Add32(prev_value, new_value), 2)
  ELSE IF GeU(new_value, Sub32(prev_value, Mul32(stddev, 4)))
            /\ LeU(new_value, Add32(prev_value, Mul32(stddev, 4)))
  THEN DivU(Add32(Mul32(new_value, 3), prev_value), 4)
  ELSE new_value

----------------------------------------------------------------------------
(* The hardware seen by one read_joystick cycle.                           *)
(*   start : value of IOC timer 0 latched right after the strobe           *)
(*   steps : ticks that pass before each successive sample of the loop     *)
(*           (the first from the strobe); the last entry repeats           *)
(*   done  : for each axis bit, the number of ticks after the strobe at    *)
(*           which its status bit drops (NEVER: not connected)             *)

NEVER == 1000 * 1000

\* the cycles the hardware can show, and the values of a per-stick array
HwCycle == [start : Int, steps : Seq(Int), done : [AxisBits -> Int]]
TimeArray == [Sticks -> Int]

StepAt(hw, i) ==
  IF i <= Len(hw.steps) THEN hw.steps[i] ELSE hw.steps[Len(hw.steps)]

\* IOC timer 0, e ticks after it read hw.start: a down-counter of period 20000
TimerAt(hw, e) == (hw.start - e) % TIMER_PERIOD

StickOfBit(k) == IF k \in {PC_JOY_A_X, PC_JOY_A_Y} THEN 0 ELSE 1

\* variant: a timing is recorded however long ago the port was last read
in_time_always(interval, tol) == TRUE

\* if(interval <= tolerance)
in_time(interval, tol) == LeU(interval, tol)

\* One iteration of the timing loop of read_joystick.
\* st = [mask, wait, interval, start_time, prev_time, new, sticks_lost,
\*       elapsed, i]
read_loop_body(hw, tol, st) ==
  LET e == st.elapsed + StepAt(hw, st.i)
      new_time == TimerAt(hw, e)
      wrapped == GtU(new_time, st.start_time)
      start_time == IF wrapped THEN Add32(st.start_time, TIMER_PERIOD)
                    ELSE st.start_time
      prev_time == IF wrapped THEN Add32(st.prev_time, TIMER_PERIOD)
                   ELSE st.prev_time
      wait == Sub32(start_time, new_time)
      interval == Sub32(prev_time, new_time)
      joy == {k \in st.mask : e >= hw.done[k]}
  IN [mask |-> st.mask \ joy,
      wait |-> wait,
      interval |-> interval,
      start_time |-> start_time,
      prev_time |-> new_time,
      new |-> Arr4(LAMBDA k :
                 IF k \in joy /\ in_time(interval, tol) THEN wait ELSE st.new[k]),
      sticks_lost |-> st.sticks_lost \cup
                 {StickOfBit(k) : k \in {j \in joy : ~in_time(interval, tol)}},
      elapsed |-> e,
      i |-> st.i + 1]

RECURSIVE read_loop(_, _, _, _)
read_loop(hw, tol, mw, st) ==
  IF st.mask # {} /\ LtU(st.wait, mw)
  THEN read_loop(hw, tol, mw, read_loop_body(hw, tol, st))
  ELSE st

\* read_joystick when it enters its timing loop: the strobe was written
\* and the timer read
read_start(mask, hw) ==
  [mask |-> mask, wait |-> 0, interval |-> 0, start_time |-> hw.start,
   prev_time |-> hw.start, new |-> Arr4(LAMBDA k : UINT_MAX),
   sticks_lost |-> {}, elapsed |-> 0, i |-> 1]

RECURSIVE GCD(_, _)
GCD(a, b) == IF b = 0 THEN a ELSE GCD(b, a % b)

\* The hardware of a cycle repeats its last step for ever, so the timer
\* values sampled repeat after Period(hw) samples.  Once the steps listed
\* are used up and every axis that completes has been seen, the loop stops
\* within two periods (one in which it may still detect the wrap) or never.
Period(hw) == TIMER_PERIOD \div GCD(StepAt(hw, Len(hw.steps)), TIMER_PERIOD)
LastDone(hw) ==
  CHOOSE d \in {0} \cup {hw.done[k] : k \in {j \in AxisBits : hw.done[j] # NEVER}} :
    \A k \in AxisBits : hw.done[k] # NEVER => hw.done[k] <= d
SamplesToRepeat(hw) ==
  Len(hw.steps) + LastDone(hw) \div StepAt(hw, Len(hw.steps)) + 1 + 2 * Period(hw)

\* the timing loop after at most n more iterations
RECURSIVE read_loop_for(_, _, _, _, _)
read_loop_for(n, hw, tol, mw, st) ==
  IF n > 0 /\ st.mask # {} /\ LtU(st.wait, mw)
  THEN read_loop_for(n - 1, hw, tol, mw, read_loop_body(hw, tol, st))
  ELSE st

\* while (mask != 0 && wait < max_wait) never becomes false
read_hangs(mask, hw, tol, mw) ==
  LET st == read_loop_for(SamplesToRepeat(hw), hw, tol, mw, read_start(mask, hw))
  IN st.mask # {} /\ LtU(st.wait, mw)

\* variant: the new value is stored without the test for UINT_MAX
store_axis_unchecked(old, new, sm, width) ==
  IF sm /\ width # 0 THEN smooth_value(old, new, width) ELSE new

\* the timing loop of read_joystick from the strobe to its end: the state st
\* it stops in holds the raw timings (new) and the axes still waited for (mask)
read_timing(mask, hw, tol, mw) == read_loop(hw, tol, mw, read_start(mask, hw))

\* the value read_joystick stores for one axis (new = UINT_MAX: no reading)
store_axis(old, new, sm, width) ==
  IF new # UINT_MAX
  THEN (IF sm /\ width # 0 THEN smooth_value(old, new, width) ELSE new)
  ELSE old

\* the end of read_joystick, after its timing loop has stopped in state st:
\* *lost, the new cached timings and the returned mask
read_store(st, xa, ya, sm, xs, ys) ==
  [mask |-> st.mask,
   lost |-> st.sticks_lost,
   x_axis |-> Arr(LAMBDA s : store_axis(xa[s], st.new[XBit(s)], sm, xs[s])),
   y_axis |-> Arr(LAMBDA s : store_axis(ya[s], st.new[YBit(s)], sm, ys[s]))]

\* read_joystick(mask, &lost) on hardware hw, with cached timings xa, ya,
\* smoothing flag sm, smoothing widths xs, ys, tolerance tol, max_wait mw.
\* Returns [mask: axes that timed out, lost, x_axis, y_axis].
read_joystick(mask, hw, xa, ya, sm, xs, ys, tol, mw) ==
  read_store(read_timing(mask, hw, tol, mw), xa, ya, sm, xs, ys)

----------------------------------------------------------------------------
(* get_av_stick_pos.  The hardware of the successive read cycles is a      *)
(* sequence `run` of cycles that repeats; n counts the cycles consumed.    *)

RunAt(run, n) == run[(n % Len(run)) + 1]

StickMask(sticks) ==
  (IF 0 \in sticks THEN {PC_JOY_A_X, PC_JOY_A_Y} ELSE {})
    \cup (IF 1 \in sticks THEN {PC_JOY_B_X, PC_JOY_B_Y} ELSE {})

\* update_min_max, for one stick: <<jit_min, jit_max>>
update_min_max(axis, jit_min, jit_max) ==
  << IF LtU(axis, jit_min) THEN axis ELSE jit_min,
     IF GtU(axis, jit_max) THEN axis ELSE jit_max >>

\* variant: a stick that lost a sample in this cycle may count as settled
within_range_though_lost(s, a, lost, xa, ya, xs, ys) ==
  /\ a.last_x[s] # UINT_MAX
  /\ LeU(absdiff(a.last_x[s], xa[s]), Mul32(xs[s], 2))
  /\ LeU(absdiff(a.last_y[s], ya[s]), Mul32(ys[s], 2))

\* has stick s settled in this cycle of the settle phase?
within_range(s, a, lost, xa, ya, xs, ys) ==
  /\ a.last_x[s] # UINT_MAX
  /\ s \notin lost
  /\ LeU(absdiff(a.last_x[s], xa[s]), Mul32(xs[s], 2))
  /\ LeU(absdiff(a.last_y[s], ya[s]), Mul32(ys[s], 2))

\* One pass of the while(test >= 0) loop, after its read_joystick has
\* returned r.
\* a = [test, go_go_go, x_tot, y_tot, x_jit_min, x_jit_max, y_jit_min,
\*      y_jit_max, last_x, last_y, x_axis, y_axis, n]
av_step(sticks, xs, ys, a, r) ==
  LET xa == r.x_axis
      ya == r.y_axis
      acc == a.go_go_go = 0
      hit(s) == s \in sticks /\ acc
      set(s) == s \in sticks /\ ~acc
      sticks_within_range ==
        {s \in sticks : ~acc /\ within_range(s, a, r.lost, xa, ya, xs, ys)}
  IN [test |-> IF acc THEN a.test - 1 ELSE a.test,
      go_go_go |-> IF a.go_go_go > 0
                   THEN (IF sticks_within_range = sticks THEN 0
                         ELSE a.go_go_go - 1)
                   ELSE a.go_go_go,
      x_tot |-> Arr(LAMBDA s :
                  IF hit(s) THEN Add32(a.x_tot[s], xa[s]) ELSE a.x_tot[s]),
      y_tot |-> Arr(LAMBDA s :
                  IF hit(s) THEN Add32(a.y_tot[s], ya[s]) ELSE a.y_tot[s]),
      x_jit_min |-> Arr(LAMBDA s : IF hit(s)
          THEN update_min_max(xa[s], a.x_jit_min[s], a.x_jit_max[s])[1]
          ELSE a.x_jit_min[s]),
      x_jit_max |-> Arr(LAMBDA s : IF hit(s)
          THEN update_min_max(xa[s], a.x_jit_min[s], a.x_jit_max[s])[2]
          ELSE a.x_jit_max[s]),
      y_jit_min |-> Arr(LAMBDA s : IF hit(s)
          THEN update_min_max(ya[s], a.y_jit_min[s], a.y_jit_max[s])[1]
          ELSE a.y_jit_min[s]),
      y_jit_max |-> Arr(LAMBDA s : IF hit(s)
          THEN update_min_max(ya[s], a.y_jit_min[s], a.y_jit_max[s])[2]
          ELSE a.y_jit_max[s]),
      last_x |-> Arr(LAMBDA s : IF set(s) THEN xa[s] ELSE a.last_x[s]),
      last_y |-> Arr(LAMBDA s : IF set(s) THEN ya[s] ELSE a.last_y[s]),
      x_axis |-> xa,
      y_axis |-> ya,
      n |-> a.n + 1]

av_loop_body(sticks, read_axes, run, sm, xs, ys, tol, mw, a) ==
  av_step(sticks, xs, ys, a,
          read_joystick(read_axes, RunAt(run, a.n), a.x_axis, a.y_axis,
                        sm, xs, ys, tol, mw))

\* av_loop_body as a function of the record of its arguments
AvState == [test : Int, go_go_go : Int, x_tot : TimeArray, y_tot : TimeArray,
            x_jit_min : TimeArray, x_jit_max : TimeArray,
            y_jit_min : TimeArray, y_jit_max : TimeArray,
            last_x : TimeArray, last_y : TimeArray,
            x_axis : TimeArray, y_axis : TimeArray, n : Int]
AvArgs == [sticks : SUBSET Sticks, read_axes : SUBSET AxisBits, run : Seq(HwCycle),
           sm : BOOLEAN, xs : TimeArray, ys : TimeArray, tol : Int, mw : Int,
           a : AvState]
av_pass[q \in AvArgs] ==
  av_loop_body(q.sticks, q.read_axes, q.run, q.sm, q.xs, q.ys, q.tol, q.mw, q.a)

\* while(test >= 0): up to 2^k passes, each made only while the loop condition
\* holds.  The loop makes at most SETTLE_LOOPS + NUM_TEST_RUNS = 40 passes, so
\* k = 6 completes it.
RECURSIVE av_loop(_, _, _, _, _, _, _, _, _, _)
av_loop(k, sticks, read_axes, run, sm, xs, ys, tol, mw, a) ==
  IF a.test >= 0
  THEN (IF k = 0
        THEN av_pass[[sticks |-> sticks, read_axes |-> read_axes, run |-> run,
                      sm |-> sm, xs |-> xs, ys |-> ys, tol |-> tol, mw |-> mw,
                      a |-> a]]
        ELSE av_loop(k - 1, sticks, read_axes, run, sm, xs, ys, tol, mw,
               av_loop(k - 1, sticks, read_axes, run, sm, xs, ys, tol, mw, a)))
  ELSE a

\* variant: without a bias, the smaller of the two distances is returned
jitdist_smaller(avg, jit_min, jit_max, bias_min, bias_max) ==
  LET min == Sub32(avg, jit_min)
      max == Sub32(jit_max, avg)
  IN IF (min < max \/ bias_min) /\ ~bias_max THEN min ELSE max

\* the deviation returned for one axis: min and max are C ints
jitdist(avg, jit_min, jit_max, bias_min, bias_max) ==
  LET min == Sub32(avg, jit_min)
      max == Sub32(jit_max, avg)
  IN IF (min > max \/ bias_min) /\ ~bias_max THEN min ELSE max

\* "Finish off average calculations", from the accumulators a the loop left
av_finish(bias, a) ==
  LET x_array == Arr(LAMBDA s : DivU(a.x_tot[s], NUM_TEST_RUNS))
      y_array == Arr(LAMBDA s : DivU(a.y_tot[s], NUM_TEST_RUNS))
  IN [x_array |-> x_array,
      y_array |-> y_array,
      x_jitdist |-> Arr(LAMBDA s :
          jitdist(x_array[s], a.x_jit_min[s], a.x_jit_max[s],
                  X_BIAS_MIN \in bias, X_BIAS_MAX \in bias)),
      y_jitdist |-> Arr(LAMBDA s :
          jitdist(y_array[s], a.y_jit_min[s], a.y_jit_max[s],
                  Y_BIAS_MIN \in bias, Y_BIAS_MAX \in bias)),
      x_axis |-> a.x_axis,
      y_axis |-> a.y_axis,
      n |-> a.n]

\* get_av_stick_pos(sticks, x_array, y_array, x_jitdist, y_jitdist, bias):
\* the four output arrays hold a value for the sticks of `sticks` only.
get_av_stick_pos(sticks, bias, run, n0, xa0, ya0, mask, sm, xs, ys, tol, mw) ==
  av_finish(bias,
    av_loop(6, sticks, StickMask(sticks) \cap mask, run, sm, xs, ys, tol, mw,
            [test |-> NUM_TEST_RUNS - 1,
             go_go_go |-> SETTLE_LOOPS,
             x_tot |-> Arr(LAMBDA s : 0),
             y_tot |-> Arr(LAMBDA s : 0),
             x_jit_min |-> Arr(LAMBDA s : MAX_AXIS_WAIT_TIME),
             x_jit_max |-> Arr(LAMBDA s : 0),
             y_jit_min |-> Arr(LAMBDA s : MAX_AXIS_WAIT_TIME),
             y_jit_max |-> Arr(LAMBDA s : 0),
             last_x |-> Arr(LAMBDA s : UINT_MAX),
             last_y |-> Arr(LAMBDA s : 0),
             x_axis |-> xa0,
             y_axis |-> ya0,
             n |-> n0]))

\* store into a per-stick array the new values of the sticks of `sticks`
Merge(old, new, sticks) ==
  Arr(LAMBDA s : IF s \in sticks THEN new[s] ELSE old[s])

----------------------------------------------------------------------------
(* reinit_joysticks *)

\* One pass of the for(test = NUM_TEST_RUNS-1; test >= 0; test--) loop, after
\* its read_joystick has returned r.
\* b = [test, new_mask, x_smooth, y_smooth, last_x, last_y, x_axis, y_axis, n]
reinit_step(sticks, b, r) ==
  LET xa == r.x_axis
      ya == r.y_axis
      cmp(s) == s \in sticks /\ b.test < NUM_TEST_RUNS - 1
      x_diff(s) == absdiff(b.last_x[s], xa[s])
      y_diff(s) == absdiff(b.last_y[s], ya[s])
  IN [test |-> b.test - 1,
      new_mask |-> b.new_mask \cup (AxisBits \ r.mask),
      x_smooth |-> Arr(LAMBDA s :
          IF cmp(s) /\ GtU(x_diff(s), b.x_smooth[s]) THEN x_diff(s)
          ELSE b.x_smooth[s]),
      y_smooth |-> Arr(LAMBDA s :
          IF cmp(s) /\ GtU(y_diff(s), b.y_smooth[s]) THEN y_diff(s)
          ELSE b.y_smooth[s]),
      last_x |-> Arr(LAMBDA s : IF s \in sticks THEN xa[s] ELSE b.last_x[s]),
      last_y |-> Arr(LAMBDA s : IF s \in sticks THEN ya[s] ELSE b.last_y[s]),
      x_axis |-> xa,
      y_axis |-> ya,
      n |-> b.n + 1]

reinit_loop_body(sticks, run, tol, mw, b) ==
  reinit_step(sticks, b,
              read_joystick(StickMask(sticks), RunAt(run, b.n), b.x_axis,
                            b.y_axis, FALSE, b.x_smooth, b.y_smooth, tol, mw))

\* reinit_loop_body as a function of the record of its arguments
ReinitState == [test : Int, new_mask : SUBSET AxisBits,
                x_smooth : TimeArray, y_smooth : TimeArray,
                last_x : TimeArray, last_y : TimeArray,
                x_axis : TimeArray, y_axis : TimeArray, n : Int]
ReinitArgs == [sticks : SUBSET Sticks, run : Seq(HwCycle), tol : Int, mw : Int,
               b : ReinitState]
reinit_pass[q \in ReinitArgs] ==
  reinit_loop_body(q.sticks, q.run, q.tol, q.mw, q.b)

\* for(test = NUM_TEST_RUNS-1; test >= 0; test--): up to 2^k passes, each made
\* only while the loop condition holds; k = 5 completes its NUM_TEST_RUNS.
RECURSIVE reinit_loop(_, _, _, _, _, _)
reinit_loop(k, sticks, run, tol, mw, b) ==
  IF b.test >= 0
  THEN (IF k = 0
        THEN reinit_pass[[sticks |-> sticks, run |-> run, tol |-> tol,
                          mw |-> mw, b |-> b]]
        ELSE reinit_loop(k - 1, sticks, run, tol, mw,
                         reinit_loop(k - 1, sticks, run, tol, mw, b)))
  ELSE b

\* variant: the upper limit is guessed as the centre itself
guess_max_at_centre(ctr) == ctr

\* x_max[stick] = x_ctr[stick]*2
guess_max(ctr) == Mul32(ctr, 2)

\* the end of reinit_joysticks, from the centre av that get_av_stick_pos
\* returned: the guessed limits and the coefficients
reinit_store(sticks, c, cz, ez, mask, b, av) ==
  LET x_ctr == Merge(c.x_ctr, av.x_array, sticks)
      y_ctr == Merge(c.y_ctr, av.y_array, sticks)
      c1 == [c EXCEPT
               !.x_smooth = b.x_smooth,
               !.y_smooth = b.y_smooth,
               !.x_ctr = x_ctr,
               !.y_ctr = y_ctr,
               !.x_ctr_deadz = Merge(c.x_ctr_deadz, av.x_jitdist, sticks),
               !.y_ctr_deadz = Merge(c.y_ctr_deadz, av.y_jitdist, sticks),
               !.x_min = Merge(c.x_min, Arr(LAMBDA s : 0), sticks),
               !.y_min = Merge(c.y_min, Arr(LAMBDA s : 0), sticks),
               !.x_max = Merge(c.x_max, Arr(LAMBDA s : guess_max(x_ctr[s])), sticks),
               !.y_max = Merge(c.y_max, Arr(LAMBDA s : guess_max(y_ctr[s])), sticks)]
  IN [x_axis |-> av.x_axis,
      y_axis |-> av.y_axis,
      cal |-> recalc_coefficients(sticks, c1, cz, ez),
      axes_mask |-> mask]

\* variant: the bits of the sticks not tested are dropped
new_axes_mask_forgets(am, stick_mask, new_mask) == new_mask \cap stick_mask

\* axes_mask = (axes_mask & ~stick_mask) | (new_mask & stick_mask)
new_axes_mask(am, stick_mask, new_mask) ==
  (am \ stick_mask) \cup (new_mask \cap stick_mask)

\* the second half of reinit_joysticks, from the state b its test runs left:
\* the new axes_mask, then "re-calibrate stick at centre"
reinit_centre(sticks, run, c, am, sm, cz, ez, tol, mw, b) ==
  LET stick_mask == StickMask(sticks)
      mask == new_axes_mask(am, stick_mask, b.new_mask)
  IN reinit_store(sticks, c, cz, ez, mask, b,
       get_av_stick_pos(sticks, {}, run, b.n, b.x_axis, b.y_axis, mask,
                        sm, b.x_smooth, b.y_smooth, tol, mw))

\* the first half of reinit_joysticks: its test runs, with smoothing off
reinit_tests(sticks, run, xa, ya, c, tol, mw) ==
  reinit_loop(5, sticks, run, tol, mw,
              [test |-> NUM_TEST_RUNS - 1,
               new_mask |-> {},
               x_smooth |-> Merge(c.x_smooth, Arr(LAMBDA s : 0), sticks),
               y_smooth |-> Merge(c.y_smooth, Arr(LAMBDA s : 0), sticks),
               last_x |-> Arr(LAMBDA s : 0),
               last_y |-> Arr(LAMBDA s : 0),
               x_axis |-> Merge(xa, Arr(LAMBDA s : REINIT_AXIS), sticks),
               y_axis |-> Merge(ya, Arr(LAMBDA s : REINIT_AXIS), sticks),
               n |-> 0])

\* reinit_joysticks(sticks) from cached timings xa, ya, calibration c and
\* axes_mask am.  Returns [x_axis, y_axis, cal, axes_mask].
reinit_joysticks(sticks, run, xa, ya, c, am, sm, cz, ez, tol, mw) ==
  reinit_centre(sticks, run, c, am, sm, cz, ez, tol, mw,
                reinit_tests(sticks, run, xa, ya, c, tol, mw))

----------------------------------------------------------------------------
(* Joystick_Read: conversion of the cached timings *)

\* variant: the value is returned as computed
unclamped(v, lo, hi) == v

\* clamp of a C int into lo..hi ("make absolutely sure value within range")
clamp(v, lo, hi) == IF v < lo THEN lo ELSE IF v > hi THEN hi ELSE v

\* (scaler * distance) >> shift, product taken modulo 2^32
scaled(scaler, distance, shift) == ShrU(Mul32(scaler, distance), shift)

x8(c, s, xa) ==
  clamp(IF GtU(xa, c.x_ctr_low[s])
        THEN (IF LtU(xa, c.x_ctr_high[s]) THEN 0
              ELSE scaled(c.x_high_scaler[s], Sub32(xa, c.x_ctr_high[s]),
                          SCALER_FRAC_SHIFT + 8))
        ELSE 0 - scaled(c.x_low_scaler[s], Sub32(c.x_ctr_low[s], xa),
                        SCALER_FRAC_SHIFT + 8),
        -127, 127)

\* variant: the Y axis is given the signs of the X axis
y8_unwired(c, s, ya) ==
  clamp(IF GtU(ya, c.y_ctr_low[s])
        THEN (IF LtU(ya, c.y_ctr_high[s]) THEN 0
              ELSE scaled(c.y_high_scaler[s], Sub32(ya, c.y_ctr_high[s]),
                          SCALER_FRAC_SHIFT + 8))
        ELSE 0 - scaled(c.y_low_scaler[s], Sub32(c.y_ctr_low[s], ya),
                        SCALER_FRAC_SHIFT + 8),
        -127, 127)

y8(c, s, ya) ==
  clamp(IF GtU(ya, c.y_ctr_low[s])
        THEN (IF LtU(ya, c.y_ctr_high[s]) THEN 0
              ELSE 0 - scaled(c.y_high_scaler[s], Sub32(ya, c.y_ctr_high[s]),
                              SCALER_FRAC_SHIFT + 8))
        ELSE scaled(c.y_low_scaler[s], Sub32(c.y_ctr_low[s], ya),
                    SCALER_FRAC_SHIFT + 8),
        -127, 127)

x16(c, s, xa) ==
  clamp(IF GtU(xa, c.x_ctr_low[s])
        THEN (IF LtU(xa, c.x_ctr_high[s]) THEN 32767
              ELSE 32767 + scaled(c.x_high_scaler[s],
                                  Sub32(xa, c.x_ctr_high[s]), SCALER_FRAC_SHIFT))
        ELSE 32767 - scaled(c.x_low_scaler[s], Sub32(c.x_ctr_low[s], xa),
                            SCALER_FRAC_SHIFT),
        0, 65535)

\* variant: the 16-bit Y is given the signs of the X axis
y16_unwired(c, s, ya) ==
  clamp(IF GtU(ya, c.y_ctr_low[s])
        THEN (IF LtU(ya, c.y_ctr_high[s]) THEN 32767
              ELSE 32767 + scaled(c.y_high_scaler[s],
                                  Sub32(ya, c.y_ctr_high[s]), SCALER_FRAC_SHIFT))
        ELSE 32767 - scaled(c.y_low_scaler[s], Sub32(c.y_ctr_low[s], ya),
                            SCALER_FRAC_SHIFT),
        0, 65535)

y16(c, s, ya) ==
  clamp(IF GtU(ya, c.y_ctr_low[s])
        THEN (IF LtU(ya, c.y_ctr_high[s]) THEN 32767
              ELSE 32767 - scaled(c.y_high_scaler[s],
                                  Sub32(ya, c.y_ctr_high[s]), SCALER_FRAC_SHIFT))
        ELSE 32767 + scaled(c.y_low_scaler[s], Sub32(c.y_ctr_low[s], ya),
                            SCALER_FRAC_SHIFT),
        0, 65535)

\* fire buttons of stick s from the gameport status byte `joy` (the set of
\* its bits that are 1): a button reads as pressed when its bit is 0
buttons(s, joy) ==
  LET b1 == IF s = 0 THEN PC_JOY_A_B1 ELSE PC_JOY_B_B1
      b2 == IF s = 0 THEN PC_JOY_A_B2 ELSE PC_JOY_B_B2
  IN (IF b1 \notin joy THEN 1 ELSE 0) + (IF b2 \notin joy THEN 2 ELSE 0)

\* variant: the position is worked out from the centres, not the cached timings
read8_of_centre(c, s, xa, ya, joy) ==
  IF s < NUM_STICKS
  THEN (y8(c, s, c.y_ctr[s]) % 256) + ((x8(c, s, c.x_ctr[s]) % 256) * 256)
         + (buttons(s, joy) * K16)
  ELSE 0

\* reason code 0: R0 = (y & 0xff) | ((x & 0xff) << 8) | buttons << 16
read8(c, s, xa, ya, joy) ==
  IF s < NUM_STICKS
  THEN (y8(c, s, ya[s]) % 256) + ((x8(c, s, xa[s]) % 256) * 256)
         + (buttons(s, joy) * K16)
  ELSE 0

\* variant: a stick that is not supported reads as 0, as for reason code 0
read16_unsupported_as_8bit(c, s, xa, ya, joy) ==
  IF s < NUM_STICKS
  THEN << Make32(x16(c, s, xa[s]), y16(c, s, ya[s])), buttons(s, joy) >>
  ELSE << 0, 0 >>

\* reason code 1: <<R0, R1>>, R0 = (y & 0xffff) | (x << 16), R1 = buttons
read16(c, s, xa, ya, joy) ==
  IF s < NUM_STICKS
  THEN << Make32(x16(c, s, xa[s]), y16(c, s, ya[s])), buttons(s, joy) >>
  ELSE << Make32(32767, 32767), 0 >>

----------------------------------------------------------------------------
(* State *)

VARIABLES
  cal,              \* the calibration arrays and the derived coefficients
  x_axis, y_axis,   \* current axis time values (possibly smoothed)
  axes_mask,        \* axes bits to read
  calib_status,
  polling_stick, swi_in_last_min, callback_pending, callback_free,
  max_wait, tolerance, smooth, end_zones, ctr_zones, poll_freq,
  host,             \* what the OS holds: [tickers, period, callbacks, monitor]
  doread,           \* activations of doread_handler in progress (a stack)
  last,             \* outcome of the latest SWI or star command
  used              \* [calls, reads, fails]: corner SWIs and star commands,
                    \* acquisitions and host failures so far

cfgvars == <<max_wait, tolerance, smooth, end_zones, ctr_zones, poll_freq>>
pollvars == <<polling_stick, swi_in_last_min, callback_pending, callback_free>>
vars == <<cal, x_axis, y_axis, axes_mask, calib_status, pollvars, cfgvars,
          host, doread, last, used>>

----------------------------------------------------------------------------
(* Bounds and inputs *)

MaxOps == 2        \* corner SWIs, star commands and acquisitions per run
MaxFails == 1      \* host calls that return an error per run
MaxCallBacks == 2  \* cap on callbacks the host queues / runs at once

\* loop iterations of 20 timer ticks each, then one long enough to time out
FineSteps == <<20, 20, 20, 20, 2000>>

Cycle(start, steps, ax, ay, bx, by) ==
  [start |-> start, steps |-> steps,
   done |-> (PC_JOY_A_X :> ax) @@ (PC_JOY_A_Y :> ay)
              @@ (PC_JOY_B_X :> bx) @@ (PC_JOY_B_Y :> by)]

\* stick A centred, at the top right and at the bottom left, steady or
\* jittering; stick B absent (its bits never drop) or present
HwCentre == Cycle(19999, FineSteps, 40, 60, NEVER, NEVER)
HwCentreJit == Cycle(19999, FineSteps, 60, 60, NEVER, NEVER)
HwTopRight == Cycle(50, FineSteps, 80, 20, NEVER, NEVER)
HwTopRightJit == Cycle(19999, FineSteps, 60, 20, NEVER, NEVER)
HwBottomLeft == Cycle(19999, FineSteps, 20, 80, NEVER, NEVER)
HwBoth == Cycle(19999, FineSteps, 40, 60, 20, 40)

InitRuns == { <<HwCentre, HwCentreJit>> }
TopRightRuns == { <<HwTopRight, HwTopRightJit>> }
BottomLeftRuns == { <<HwBottomLeft>> }
ReInitRuns == { <<HwBoth>> }
PollCycles == { HwTopRight }
Ports == { {PC_JOY_A_B2, PC_JOY_B_B1, PC_JOY_B_B2} }
ReadSticks == {0}
ReasonCodes == 0 .. 2

NoArg == << >>        \* an argument that was not given
ConfigNone == [smooth |-> FALSE, nosmooth |-> FALSE, ctrzone |-> FALSE,
               noctrzone |-> FALSE, endzone |-> FALSE, noendzone |-> FALSE,
               tolerance |-> NoArg, timeout |-> NoArg, poll |-> NoArg]
ConfigArgs ==
  { ConfigNone,
    [ConfigNone EXCEPT !.nosmooth = TRUE, !.poll = IntBlock(3)],
    [ConfigNone EXCEPT !.smooth = TRUE, !.nosmooth = TRUE, !.timeout = IntBlock(150)] }

CalibNone == [joynum |-> StrBlock, xory |-> "", min |-> NoArg, ctr |-> NoArg, max |-> NoArg, ctrzone |-> NoArg,
              endzone |-> NoArg, smooth |-> NoArg]
CalibArgs ==
  { [CalibNone EXCEPT !.joynum = IntBlock(0), !.xory = "X",
                       !.max = IntBlock(250), !.endzone = IntBlock(7)],
    [CalibNone EXCEPT !.joynum = IntBlock(2), !.xory = "X", !.min = IntBlock(5)] }

ReInitArgs == { NoArg, IntBlock(2) }

\* outcomes of a host call that may return an error
HostOutcomes == IF used.fails < MaxFails THEN {TRUE, FALSE} ELSE {TRUE}

----------------------------------------------------------------------------
(* Initial state: the module after MicoJoy_initialise has returned NULL *)

CalFields == {"x_min", "x_max", "y_min", "y_max", "x_ctr_deadz", "y_ctr_deadz",
              "x_ctr", "y_ctr", "x_end_deadz", "y_end_deadz", "x_smooth",
              "y_smooth", "x_ctr_low", "y_ctr_low", "x_ctr_high", "y_ctr_high",
              "x_low_scaler", "x_high_scaler", "y_low_scaler", "y_high_scaler"}
ZeroArray == Arr(LAMBDA s : 0)
ZeroCal == [f \in CalFields |-> ZeroArray]

\* what the caller of a SWI or command gets back: the error, R0 and R1 of
\* Joystick_Read, the text a command prints.  For a corner SWI, before is
\* calib_status on entry and x_array, y_array, x_jitdist, y_jitdist are what
\* its get_av_stick_pos returned
OutcomeOf(op, err, r0, r1, before) ==
  [op |-> op, err |-> err, r0 |-> r0, r1 |-> r1, shown |-> << >>,
   before |-> before, x_array |-> ZeroArray, y_array |-> ZeroArray,
   x_jitdist |-> ZeroArray, y_jitdist |-> ZeroArray]
Outcome(op, err, r0, r1) == OutcomeOf(op, err, r0, r1, CALIB_NONE)

\* the statics as initialised, and what reinit_joysticks(STICK_0|STICK_1) wrote
initial_state(r) ==
     /\ cal = r.cal
     /\ x_axis = r.x_axis
     /\ y_axis = r.y_axis
     /\ axes_mask = r.axes_mask
     /\ calib_status = CALIB_NONE
     /\ polling_stick = FALSE
     /\ swi_in_last_min = FALSE
     /\ callback_pending = FALSE
     /\ callback_free = TRUE
     /\ max_wait = MAX_AXIS_WAIT_TIME
     /\ tolerance = MAX_GRANULARITY
     /\ smooth = TRUE
     /\ end_zones = TRUE
     /\ ctr_zones = TRUE
     /\ poll_freq = POLL_FREQUENCY - 1
     /\ host = [tickers |-> 0, period |-> 0, callbacks |-> 0, monitor |-> TRUE]
     /\ doread = << >>
     /\ last = Outcome("initialise", "none", 0, 0)
     /\ used = [calls |-> 0, reads |-> 0, fails |-> 0]

MicoJoy_initialise(run) ==
  initial_state(reinit_joysticks(Sticks, run, ZeroArray, ZeroArray, ZeroCal, {},
                                 TRUE, TRUE, TRUE, MAX_GRANULARITY,
                                 MAX_AXIS_WAIT_TIME))

Init == \E run \in InitRuns : MicoJoy_initialise(run)

\* SWIs and star commands run in the foreground: not inside a callback, and
\* only while the module is loaded
Foreground == host.monitor /\ doread = << >>

Failed(ok) == IF ok THEN used ELSE [used EXCEPT !.fails = @ + 1]
Spent(u) == [u EXCEPT !.calls = @ + 1]
Acquired(u) == [u EXCEPT !.reads = @ + 1]
Budget == used.calls + used.reads < MaxOps

----------------------------------------------------------------------------
(* MicoJoy_swihandler *)

\* what the host holds after OS_CallEvery and after OS_RemoveTickerEvent
call_every(h, period) == [h EXCEPT !.tickers = @ + 1, !.period = period]
remove_ticker(h) == [h EXCEPT !.tickers = @ - 1]

\* variant: the gate tests one bit of calib_status only
ReadGateTopRightOnly == calib_status = CALIB_TOP_RIGHT

\* if(calib_status != CALIB_NONE) return &error_calib
ReadGate == calib_status # CALIB_NONE

\* variant: the gate is tested after the restart of polling
read_refused_after_restart ==
  /\ swi_in_last_min' = TRUE
  /\ polling_stick' = TRUE
  /\ host' = IF polling_stick THEN host ELSE call_every(host, poll_freq)
  /\ last' = Outcome("Read", "error_calib", 0, 0)
  /\ UNCHANGED <<cal, x_axis, y_axis, axes_mask, calib_status, callback_pending,
                 callback_free, cfgvars, doread, used>>

\* variant: the call is noted for the monitor before the gate is tested
read_refused_marks ==
  /\ swi_in_last_min' = TRUE
  /\ last' = Outcome("Read", "error_calib", 0, 0)
  /\ UNCHANGED <<cal, x_axis, y_axis, axes_mask, calib_status, polling_stick,
                 callback_pending, callback_free, cfgvars, host, doread, used>>

read_refused ==
  /\ last' = Outcome("Read", "error_calib", 0, 0)
  /\ UNCHANGED <<cal, x_axis, y_axis, axes_mask, calib_status, pollvars,
                 cfgvars, host, doread, used>>

\* variant: the ticker is registered with the default delay
default_period == POLL_FREQUENCY - 1

\* the delay Joystick_Read passes to OS_CallEvery
restart_period == poll_freq

\* variant: the cached values are kept when polling restarts
stale_axis(ctr, axis) == axis

\* the cached value of an axis after polling restarts
restart_axis(ctr, axis) == ctr

\* variant: polling_stick is set before OS_CallEvery is called
read_not_started_flag_set ==
  /\ swi_in_last_min' = TRUE
  /\ polling_stick' = TRUE
  /\ last' = Outcome("Read", "os_error", 0, 0)
  /\ used' = Failed(FALSE)
  /\ UNCHANGED <<cal, x_axis, y_axis, axes_mask, calib_status,
                 callback_pending, callback_free, cfgvars, host, doread>>

\* OS_CallEvery returned an error: "if(e != NULL) return e"
read_not_started ==
  /\ swi_in_last_min' = TRUE
  /\ last' = Outcome("Read", "os_error", 0, 0)
  /\ used' = Failed(FALSE)
  /\ UNCHANGED <<cal, x_axis, y_axis, axes_mask, calib_status,
                 polling_stick, callback_pending, callback_free,
                 cfgvars, host, doread>>

read_accepted(stick_num, reason_code, joy, ok) ==
  IF ~polling_stick /\ ~ok
  THEN read_not_started
  ELSE LET restart == ~polling_stick
           xa == IF restart THEN restart_axis(cal.x_ctr, x_axis) ELSE x_axis
           ya == IF restart THEN restart_axis(cal.y_ctr, y_axis) ELSE y_axis
       IN /\ swi_in_last_min' = TRUE
          /\ polling_stick' = TRUE
          /\ host' = IF restart THEN call_every(host, restart_period) ELSE host
          /\ x_axis' = xa
          /\ y_axis' = ya
          /\ last' = CASE reason_code = 0 ->
                            Outcome("Read", "none",
                                    read8(cal, stick_num, xa, ya, joy), 0)
                       [] reason_code = 1 ->
                            Outcome("Read", "none",
                                    read16(cal, stick_num, xa, ya, joy)[1],
                                    read16(cal, stick_num, xa, ya, joy)[2])
                       [] OTHER -> Outcome("Read", "bad_reason", 0, 0)
          /\ UNCHANGED <<cal, axes_mask, calib_status, callback_pending,
                         callback_free, cfgvars, doread, used>>

\* case Joystick_Read: stick_num and reason_code from R0, joy the gameport
\* status byte, ok the outcome of OS_CallEvery if it is called
Joystick_Read(stick_num, reason_code, joy, ok) ==
  /\ Foreground
  /\ ok \/ (~ReadGate /\ ~polling_stick)
  /\ IF ReadGate THEN read_refused
     ELSE read_accepted(stick_num, reason_code, joy, ok)

\* the test made before the switch: a corner SWI with no calibration pending
\* and polling on removes the ticker; an error from the host is ignored
StopsPolling == calib_status = CALIB_NONE /\ polling_stick

\* variant: the deviation of the completing call replaces the stored one
latest(jit, deadz) == jit

\* if(x_jitdist[stick_num] > x_end_deadz[stick_num]) x_end_deadz[..] = x_jitdist[..]
larger(jit, deadz) ==
  Arr(LAMBDA s : IF GtU(jit[s], deadz[s]) THEN jit[s] ELSE deadz[s])

\* a corner case once get_av_stick_pos has returned av: what is stored, and
\* the removal of the ticker made on entry
corner_store(op, bit, xt, yt, ok, av) ==
  LET removed == StopsPolling /\ ok
      status == BitOr(calib_status, bit)
      c1 == [cal EXCEPT ![xt] = av.x_array, ![yt] = av.y_array]
      c2 == IF status = BitOr(CALIB_TOP_RIGHT, CALIB_BOTTOM_LEFT)
            THEN recalc_coefficients(Sticks,
                   [c1 EXCEPT !.x_end_deadz = larger(av.x_jitdist, cal.x_end_deadz),
                              !.y_end_deadz = larger(av.y_jitdist, cal.y_end_deadz)],
                   ctr_zones, end_zones)
            ELSE [c1 EXCEPT !.x_end_deadz = av.x_jitdist,
                            !.y_end_deadz = av.y_jitdist]
  IN /\ polling_stick' = IF removed THEN FALSE ELSE polling_stick
     /\ host' = IF removed THEN remove_ticker(host) ELSE host
     /\ calib_status' = IF status = BitOr(CALIB_TOP_RIGHT, CALIB_BOTTOM_LEFT)
                        THEN CALIB_NONE ELSE status
     /\ cal' = c2
     /\ x_axis' = av.x_axis
     /\ y_axis' = av.y_axis
     /\ last' = [OutcomeOf(op, "none", 0, 0, calib_status) EXCEPT
                   !.x_array = av.x_array, !.y_array = av.y_array,
                   !.x_jitdist = av.x_jitdist, !.y_jitdist = av.y_jitdist]
     /\ used' = Spent(Failed(ok))
     /\ UNCHANGED <<axes_mask, swi_in_last_min, callback_pending, callback_free,
                    cfgvars, doread>>

\* the body shared by the two corner cases: the arrays that receive the
\* average (xt, yt) and the bias differ
corner(op, bit, xt, yt, bias, run, ok) ==
  corner_store(op, bit, xt, yt, ok,
    get_av_stick_pos(Sticks, bias, run, 0, x_axis, y_axis, axes_mask,
                     smooth, cal.x_smooth, cal.y_smooth, tolerance, max_wait))

\* variant: the top right average is stored into the bottom left arrays
Joystick_CalibrateTopRight_into_min(run, ok) ==
  /\ Foreground
  /\ Budget
  /\ ok \/ StopsPolling
  /\ corner("CalibrateTopRight", CALIB_TOP_RIGHT, "x_min", "y_max",
            {X_BIAS_MIN, Y_BIAS_MAX}, run, ok)

Joystick_CalibrateTopRight(run, ok) ==
  /\ Foreground
  /\ Budget
  /\ ok \/ StopsPolling
  /\ corner("CalibrateTopRight", CALIB_TOP_RIGHT, "x_max", "y_min",
            {X_BIAS_MIN, Y_BIAS_MAX}, run, ok)

Joystick_CalibrateBottomLeft(run, ok) ==
  /\ Foreground
  /\ Budget
  /\ ok \/ StopsPolling
  /\ corner("CalibrateBottomLeft", CALIB_BOTTOM_LEFT, "x_min", "y_max",
            {X_BIAS_MAX, Y_BIAS_MIN}, run, ok)

----------------------------------------------------------------------------
(* MicoJoy_cmdhandler *)

Given(v) == v # NoArg

\* variant: only the smoothing switches are tested for a conflict
config_conflict_smooth_only(a) == a.smooth /\ a.nosmooth

\* both forms of one switch were given
config_conflict(a) ==
  \/ a.smooth /\ a.nosmooth
  \/ a.ctrzone /\ a.noctrzone
  \/ a.endzone /\ a.noendzone

\* variant: the coefficients are recalculated for the centre zones only
config_recalc_ctr_only(a) == IF a.ctrzone THEN ~ctr_zones ELSE a.noctrzone

\* bool recalc of *JoystickConfig, when it reaches if(recalc)
config_recalc(a) ==
  \/ IF a.ctrzone THEN ~ctr_zones ELSE a.noctrzone
  \/ IF a.endzone
     THEN ~(IF a.ctrzone THEN TRUE ELSE IF a.noctrzone THEN FALSE ELSE ctr_zones)
     ELSE a.noendzone

\* variant: a delay of 0 is let through
min_freq_zero(freq) == IF freq < 0 THEN 1 ELSE freq

\* if(new_freq <= 0) new_freq = 1
min_freq(freq) == IF freq <= 0 THEN 1 ELSE freq

\* variant: the new delay is stored before the ticker is re-registered
poll_stored_first(change, rehook, ok1, ok2) == change

\* is "poll_freq = new_freq" reached?  Not when a host call made to
\* re-register the ticker returned an error
poll_stored(change, rehook, ok1, ok2) == change /\ (~rehook \/ (ok1 /\ ok2))

\* *JoystickConfig: a the arguments; ok1, ok2 the outcomes of
\* OS_RemoveTickerEvent and OS_CallEvery when -poll re-registers the ticker
JoystickConfig(a, ok1, ok2) ==
  LET argc == a # ConfigNone
      conflict == config_conflict(a)
      sm == IF a.smooth THEN TRUE ELSE IF a.nosmooth THEN FALSE ELSE smooth
      cz == IF a.ctrzone THEN TRUE ELSE IF a.noctrzone THEN FALSE ELSE ctr_zones
      ez == IF a.endzone THEN (IF ~cz THEN TRUE ELSE end_zones)
            ELSE IF a.noendzone THEN FALSE ELSE end_zones
      new_freq == min_freq(eval_expr(a.poll) - 1)
      change == Given(a.poll) /\ new_freq # poll_freq
      rehook == change /\ polling_stick
  IN /\ Foreground
     /\ Budget
     /\ (ok1 /\ ok2) \/ (argc /\ ~conflict /\ rehook /\ (ok1 \/ ok2))
     /\ IF ~argc
        THEN /\ last' = [Outcome("JoystickConfig", "none", 0, 0) EXCEPT
                           !.shown = <<smooth, ctr_zones, end_zones, tolerance,
                                       max_wait, poll_freq + 1>>]
             /\ used' = Spent(used)
             /\ UNCHANGED <<cal, cfgvars, polling_stick, host>>
        ELSE IF conflict
        THEN /\ last' = Outcome("JoystickConfig", "error_command_syntax", 0, 0)
             /\ used' = Spent(used)
             /\ UNCHANGED <<cal, cfgvars, polling_stick, host>>
        ELSE /\ smooth' = sm
             /\ ctr_zones' = cz
             /\ end_zones' = ez
             /\ cal' = IF config_recalc(a)
                       THEN recalc_coefficients(Sticks, cal, cz, ez) ELSE cal
             /\ tolerance' = IF Given(a.tolerance) THEN eval_expr(a.tolerance)
                             ELSE tolerance
             /\ max_wait' = IF Given(a.timeout) THEN eval_expr(a.timeout)
                            ELSE max_wait
             /\ poll_freq' = IF poll_stored(change, rehook, ok1, ok2)
                             THEN new_freq ELSE poll_freq
             /\ polling_stick' = IF rehook /\ ok1 /\ ~ok2 THEN FALSE
                                 ELSE polling_stick
             /\ host' = IF rehook /\ ok1
                        THEN (IF ok2 THEN call_every(remove_ticker(host), new_freq)
                              ELSE remove_ticker(host))
                        ELSE host
             /\ last' = Outcome("JoystickConfig",
                                IF rehook /\ ~(ok1 /\ ok2) THEN "os_error"
                                ELSE "none", 0, 0)
             /\ used' = Spent(Failed(ok1 /\ ok2))
     /\ UNCHANGED <<x_axis, y_axis, axes_mask, calib_status, swi_in_last_min,
                    callback_pending, callback_free, doread>>

\* variant: the value goes to the X axis whatever the axis named
set_field_x(c, change_x, xname, yname, joynum, arg) ==
  IF Given(arg) THEN [c EXCEPT ![xname][joynum] = eval_expr(arg)] ELSE c

\* variant: the axis name is looked at before the stick number
calib_error_axis_first(joynum, xory) ==
  IF xory \notin {"x", "X", "y", "Y"} THEN "error_command_syntax"
  ELSE IF joynum > NUM_STICKS - 1 \/ joynum < 0 THEN "bad_joy_num"
  ELSE "none"

\* the error *JoystickCalib returns for its first two arguments
calib_error(joynum, xory) ==
  IF joynum > NUM_STICKS - 1 \/ joynum < 0 THEN "bad_joy_num"
  ELSE IF xory \notin {"x", "X", "y", "Y"} THEN "error_command_syntax"
  ELSE "none"

\* *JoystickCalib <stick number> X|Y [-min ..] [-ctr ..] [-max ..]
\* [-ctrzone ..] [-endzone ..] [-smooth ..]
set_field(c, change_x, xname, yname, joynum, arg) ==
  IF Given(arg)
  THEN [c EXCEPT ![IF change_x THEN xname ELSE yname][joynum] = eval_expr(arg)]
  ELSE c

JoystickCalib(a) ==
  LET joynum == eval_expr(a.joynum)
      change_x == a.xory \in {"x", "X"}
      c1 == set_field(cal, change_x, "x_min", "y_min", joynum, a.min)
      c2 == set_field(c1, change_x, "x_ctr", "y_ctr", joynum, a.ctr)
      c3 == set_field(c2, change_x, "x_max", "y_max", joynum, a.max)
      c4 == set_field(c3, change_x, "x_ctr_deadz", "y_ctr_deadz", joynum, a.ctrzone)
      c5 == set_field(c4, change_x, "x_end_deadz", "y_end_deadz", joynum, a.endzone)
      c6 == set_field(c5, change_x, "x_smooth", "y_smooth", joynum, a.smooth)
  IN /\ Foreground
     /\ Budget
     /\ IF calib_error(joynum, a.xory) # "none"
        THEN /\ last' = Outcome("JoystickCalib", calib_error(joynum, a.xory), 0, 0)
             /\ UNCHANGED cal
        ELSE /\ cal' = recalc_coefficients({joynum}, c6, ctr_zones, end_zones)
             /\ last' = Outcome("JoystickCalib", "none", 0, 0)
     /\ used' = Spent(used)
     /\ UNCHANGED <<x_axis, y_axis, axes_mask, calib_status, pollvars, cfgvars,
                    host, doread>>

\* the globals reinit_joysticks has written when it returns r
reinit_done(r) ==
  /\ cal' = r.cal
  /\ x_axis' = r.x_axis
  /\ y_axis' = r.y_axis
  /\ axes_mask' = r.axes_mask

\* *JoystickReInit [<stick number>]
JoystickReInit(a, run) ==
  LET joynum == eval_expr(a)
      sticks == IF Given(a) THEN {joynum} ELSE Sticks
  IN /\ Foreground
     /\ Budget
     /\ IF Given(a) /\ (joynum > NUM_STICKS - 1 \/ joynum < 0)
        THEN /\ last' = Outcome("JoystickReInit", "bad_joy_num", 0, 0)
             /\ UNCHANGED <<cal, x_axis, y_axis, axes_mask>>
        ELSE /\ reinit_done(
                  reinit_joysticks(sticks, run, x_axis, y_axis, cal, axes_mask,
                                   smooth, ctr_zones, end_zones, tolerance,
                                   max_wait))
             /\ last' = Outcome("JoystickReInit", "none", 0, 0)
     /\ used' = Spent(used)
     /\ UNCHANGED <<calib_status, pollvars, cfgvars, host, doread>>

----------------------------------------------------------------------------
(* The ticker and callback handlers *)

\* variant: a callback is added on every tick
AlwaysAddCallBack == TRUE

\* if(callback_free): no callback is queued or running
MayAddCallBack == callback_free

\* pollstick_handler: runs on the ticker the host holds for it; ok is the
\* outcome of OS_AddCallBack
pollstick_handler(ok) ==
  /\ host.tickers > 0
  /\ host.callbacks < MaxCallBacks
  /\ ok \/ MayAddCallBack
  /\ IF MayAddCallBack /\ ok
     THEN /\ callback_pending' = TRUE
          /\ callback_free' = FALSE
          /\ host' = [host EXCEPT !.callbacks = @ + 1]
     ELSE UNCHANGED <<callback_pending, callback_free, host>>
  /\ used' = Failed(ok)
  /\ UNCHANGED <<cal, x_axis, y_axis, axes_mask, calib_status, polling_stick,
                 swi_in_last_min, cfgvars, doread, last>>

\* variant: polling is stopped whether or not swi_in_last_min is set
stoppoll_ignores_mark(ok) ==
  /\ host.monitor
  /\ ok \/ polling_stick
  /\ IF polling_stick /\ ok
     THEN /\ polling_stick' = FALSE
          /\ host' = remove_ticker(host)
     ELSE UNCHANGED <<polling_stick, host>>
  /\ swi_in_last_min' = FALSE
  /\ used' = Failed(ok)
  /\ UNCHANGED <<cal, x_axis, y_axis, axes_mask, calib_status, callback_pending,
                 callback_free, cfgvars, doread, last>>

\* stoppoll_handler: runs every MONITOR_INTERVAL; ok is the outcome of
\* OS_RemoveTickerEvent
stoppoll_handler(ok) ==
  /\ host.monitor
  /\ ok \/ (~swi_in_last_min /\ polling_stick)
  /\ IF swi_in_last_min
     THEN /\ swi_in_last_min' = FALSE
          /\ UNCHANGED <<polling_stick, host>>
     ELSE IF polling_stick /\ ok
     THEN /\ polling_stick' = FALSE
          /\ host' = remove_ticker(host)
          /\ UNCHANGED swi_in_last_min
     ELSE UNCHANGED <<polling_stick, swi_in_last_min, host>>
  /\ used' = Failed(ok)
  /\ UNCHANGED <<cal, x_axis, y_axis, axes_mask, calib_status, callback_pending,
                 callback_free, cfgvars, doread, last>>

\* variant: the gameport is read whether or not polling is on
doread_branch_always == "read"

\* if(polling_stick): what the activation goes on to do
doread_branch == IF polling_stick THEN "read" ELSE "skip"

\* doread_handler, entered by the host for a queued callback: up to the test
\* of polling_stick
doread_enter ==
  /\ host.callbacks > 0
  /\ Len(doread) < MaxCallBacks
  /\ host' = [host EXCEPT !.callbacks = @ - 1]
  /\ callback_pending' = FALSE
  /\ doread' = Append(doread, doread_branch)
  /\ UNCHANGED <<cal, x_axis, y_axis, axes_mask, calib_status, polling_stick,
                 swi_in_last_min, callback_free, cfgvars, last, used>>

\* the cached timings read_joystick has written when it returns r
cache_reading(r) ==
  /\ x_axis' = r.x_axis
  /\ y_axis' = r.y_axis

\* doread_handler, the rest: read_joystick(axes_mask, NULL) if polling_stick
\* was set, then callback_free = true.  If the timing loop of read_joystick
\* never stops, the activation stays in it ("hung") and nothing is written
doread_finish(hw) ==
  /\ doread # << >>
  /\ doread[Len(doread)] # "hung"
  /\ IF doread[Len(doread)] = "read"
        /\ read_hangs(axes_mask, hw, tolerance, max_wait)
     THEN /\ Budget
          /\ doread' = [doread EXCEPT ![Len(doread)] = "hung"]
          /\ used' = Acquired(used)
          /\ UNCHANGED <<x_axis, y_axis, callback_free>>
     ELSE /\ IF doread[Len(doread)] = "read"
             THEN /\ Budget
                  /\ \E pos \in {read_joystick(axes_mask, hw, x_axis, y_axis,
                                                smooth, cal.x_smooth,
                                                cal.y_smooth, tolerance,
                                                max_wait)} :
                       cache_reading(pos)
                  /\ used' = Acquired(used)
             ELSE UNCHANGED <<x_axis, y_axis, used>>
          /\ callback_free' = TRUE
          /\ doread' = SubSeq(doread, 1, Len(doread) - 1)
  /\ UNCHANGED <<cal, axes_mask, calib_status, polling_stick, swi_in_last_min,
                 callback_pending, cfgvars, host, last>>

----------------------------------------------------------------------------
(* MicoJoy_finalise *)

\* the host call of MicoJoy_finalise that returns an error, if any: 1 the
\* removal of the pollstick ticker, 2 OS_RemoveCallBack, 3 the removal of
\* the stoppoll ticker, 0 none
FinaliseFails == IF used.fails < MaxFails THEN 0 .. 3 ELSE {0}

\* variant: a callback still queued is left with the host
finalised_keeps_callback(h, fail) ==
  [h EXCEPT !.tickers = IF polling_stick THEN @ - 1 ELSE @,
            !.monitor = fail # 0]

\* what the host holds once MicoJoy_finalise has got past the removal of
\* the pollstick ticker
finalised(h, fail) ==
  [h EXCEPT !.tickers = IF polling_stick THEN @ - 1 ELSE @,
            !.callbacks = IF callback_pending /\ fail # 2 THEN @ - 1 ELSE @,
            !.monitor = fail # 0]

\* MicoJoy_finalise: each failing host call ends it with that error and the
\* module stays loaded; when the last call succeeds the module is gone
MicoJoy_finalise(fail) ==
  /\ Foreground
  /\ fail = 1 => polling_stick
  /\ fail = 2 => callback_pending
  /\ IF polling_stick /\ fail = 1
     THEN UNCHANGED <<polling_stick, callback_pending, host>>
     ELSE /\ polling_stick' = FALSE
          /\ callback_pending' = IF fail = 2 THEN callback_pending ELSE FALSE
          /\ host' = finalised(host, fail)
  /\ last' = Outcome("finalise", IF fail = 0 THEN "none" ELSE "os_error", 0, 0)
  /\ used' = Failed(fail = 0)
  /\ UNCHANGED <<cal, x_axis, y_axis, axes_mask, calib_status, swi_in_last_min,
                 callback_free, cfgvars, doread>>

----------------------------------------------------------------------------

Next ==
  \/ \E s \in ReadSticks, rc \in ReasonCodes, joy \in Ports, ok \in HostOutcomes :
       Joystick_Read(s, rc, joy, ok)
  \/ \E run \in TopRightRuns, ok \in HostOutcomes :
       Joystick_CalibrateTopRight(run, ok)
  \/ \E run \in BottomLeftRuns, ok \in HostOutcomes :
       Joystick_CalibrateBottomLeft(run, ok)
  \/ \E a \in ConfigArgs, ok1 \in HostOutcomes, ok2 \in HostOutcomes :
       JoystickConfig(a, ok1, ok2)
  \/ \E a \in CalibArgs : JoystickCalib(a)
  \/ \E a \in ReInitArgs, run \in ReInitRuns : JoystickReInit(a, run)
  \/ \E ok \in HostOutcomes : pollstick_handler(ok)
  \/ \E ok \in HostOutcomes : stoppoll_handler(ok)
  \/ doread_enter
  \/ \E hw \in PollCycles : doread_finish(hw)
  \/ \E fail \in FinaliseFails : MicoJoy_finalise(fail)

Spec == Init /\ [][Next]_vars

----------------------------------------------------------------------------
(* The conversion of cached timings under manual calibration.              *)
(* *JoystickCalib stores any 32-bit word in any calibration field, and a   *)
(* Joystick_Read made while Idle copies the centres into the cached        *)
(* timings.  So after "*JoystickCalib 0 X -ctr raw", the same for Y, and   *)
(* one Joystick_Read, the module polls with raw cached for both axes of    *)
(* stick 0; from there the commands recalibrate it under that cached raw.  *)

ScaleRaws == {0, 10, 31, 214, 215, 655, 703, 751, 1406, 2000}

\* the module right after a Joystick_Read (8-bit, stick 0) has started
\* polling with calibration c: the cached timings are the centres
polling_state(c, joy) ==
  /\ cal = c
  /\ x_axis = c.x_ctr
  /\ y_axis = c.y_ctr
  /\ axes_mask = {PC_JOY_A_X, PC_JOY_A_Y}
  /\ calib_status = CALIB_NONE
  /\ polling_stick = TRUE
  /\ swi_in_last_min = TRUE
  /\ callback_pending = FALSE
  /\ callback_free = TRUE
  /\ max_wait = MAX_AXIS_WAIT_TIME
  /\ tolerance = MAX_GRANULARITY
  /\ smooth = TRUE
  /\ end_zones = TRUE
  /\ ctr_zones = TRUE
  /\ poll_freq = POLL_FREQUENCY - 1
  /\ host = call_every([tickers |-> 0, period |-> 0, callbacks |-> 0,
                        monitor |-> TRUE], POLL_FREQUENCY - 1)
  /\ doread = << >>
  /\ last = Outcome("Read", "none", read8(c, 0, c.x_ctr, c.y_ctr, joy), 0)
  /\ used = [calls |-> 0, reads |-> 0, fails |-> 0]

\* the calibration after "*JoystickCalib 0 X -ctr raw" and
\* "*JoystickCalib 0 Y -ctr raw", given from what reinit_joysticks left (r)
centred_at(r, raw) ==
  recalc_coefficients({0}, [r.cal EXCEPT !.x_ctr[0] = raw, !.y_ctr[0] = raw],
                      TRUE, TRUE)

recentred(r, raw, joy) == polling_state(centred_at(r, raw), joy)

ScaleInit ==
  \E run \in InitRuns, raw \in ScaleRaws, joy \in Ports :
    recentred(reinit_joysticks(Sticks, run, ZeroArray, ZeroArray, ZeroCal, {},
                               TRUE, TRUE, TRUE, MAX_GRANULARITY,
                               MAX_AXIS_WAIT_TIME),
              raw, joy)

\* -min, -ctr, -max, -ctrzone, -endzone of one axis
AxisCal(min, ctr, max, ctrzone, endzone) ==
  [min |-> min, ctr |-> ctr, max |-> max, ctrzone |-> ctrzone,
   endzone |-> endzone]

\* the usual shape; an end dead zone that leaves a narrow slope; slopes of
\* width 0, of negative width and of width 1; a centre dead zone wider than
\* the centre timing, below a negative minimum
ScaleCals ==
  { AxisCal(0, 703, 1406, 48, 0),
    AxisCal(0, 703, 1406, 48, 600),
    AxisCal(655, 703, 751, 48, 0),
    AxisCal(700, 703, 710, 48, 10),
    AxisCal(654, 703, 752, 48, 0),
    AxisCal(-12, 10, 100, 21, 0) }

ScaleCalibArgs ==
  { [CalibNone EXCEPT !.joynum = IntBlock(0), !.xory = axis,
                       !.min = IntBlock(k.min), !.ctr = IntBlock(k.ctr),
                       !.max = IntBlock(k.max), !.ctrzone = IntBlock(k.ctrzone),
                       !.endzone = IntBlock(k.endzone)] :
      axis \in {"X", "y"}, k \in ScaleCals }

ScaleConfigArgs ==
  { [ConfigNone EXCEPT !.noctrzone = TRUE],
    [ConfigNone EXCEPT !.noendzone = TRUE] }

\* stick numbers of R0: a supported stick and an unsupported one
ScaleSticks == {0, 1, 2, 255}

ScaleNext ==
  \/ \E s \in ScaleSticks, rc \in ReasonCodes, joy \in Ports :
       Joystick_Read(s, rc, joy, TRUE)
  \/ \E a \in ScaleCalibArgs : JoystickCalib(a)
  \/ \E a \in ScaleConfigArgs : JoystickConfig(a, TRUE, TRUE)

ScaleSpec == ScaleInit /\ [][ScaleNext]_vars

----------------------------------------------------------------------------
(* Background acquisition over chosen cached timings and smoothing widths. *)
(* After "*JoystickCalib 0 X -ctr prev -smooth width", the same for Y, and *)
(* one Joystick_Read, the module polls with prev cached for both axes of   *)
(* stick 0 and width as their smoothing range.                             *)

\* <<prev, width>>: in reach of every tier; prev smaller than width, off a
\* sample time and on one; smoothing off for the axis
AcqSeeds == { <<100, 20>>, <<5, 20>>, <<20, 25>>, <<100, 0>> }

smooth_set(r, prev, width) ==
  recalc_coefficients({0},
    [r.cal EXCEPT !.x_ctr[0] = prev, !.y_ctr[0] = prev,
                  !.x_smooth[0] = width, !.y_smooth[0] = width],
    TRUE, TRUE)

seeded(r, prev, width, joy) == polling_state(smooth_set(r, prev, width), joy)

AcqInit ==
  \E run \in InitRuns, seed \in AcqSeeds, joy \in Ports :
    seeded(reinit_joysticks(Sticks, run, ZeroArray, ZeroArray, ZeroCal, {},
                            TRUE, TRUE, TRUE, MAX_GRANULARITY,
                            MAX_AXIS_WAIT_TIME),
           seed[1], seed[2], joy)

\* a sample taken 50 ticks after the one before it, beyond the tolerance
GapSteps == <<20, 50, 20, 20, 2000>>

\* a sample taken a little less than one period of the timer after the one
\* before it
LongGapSteps == <<20, 20, 19980, 20, 20, 2000>>

\* ten loop iterations of 20 timer ticks each, then one that passes the
\* timeout
AcqSteps == <<20, 20, 20, 20, 20, 20, 20, 20, 20, 20, 2000>>

\* stick A at several distances from the seeds, with the timer wrapping or
\* not; an axis that never completes and one that completes too late;
\* stick B, which is not read, absent or completing; an axis that completes
\* in a gap between two samples, short or long
AcqCycles ==
  { Cycle(19999, AcqSteps, 120, 140, NEVER, NEVER),
    Cycle(50, AcqSteps, 160, 180, 40, 60),
    Cycle(19999, AcqSteps, 200, 100, NEVER, NEVER),
    Cycle(19999, AcqSteps, 20, 60, NEVER, NEVER),
    Cycle(19999, AcqSteps, NEVER, 100, 40, 40),
    Cycle(19999, AcqSteps, 2300, 80, NEVER, NEVER),
    Cycle(19999, GapSteps, 60, 80, NEVER, NEVER),
    Cycle(50, GapSteps, 20, 60, 60, 60),
    Cycle(19999, LongGapSteps, 20, 20030, NEVER, NEVER) }

AcqConfigArgs == { [ConfigNone EXCEPT !.nosmooth = TRUE] }

AcqNext ==
  \/ pollstick_handler(TRUE)
  \/ doread_enter
  \/ \E hw \in AcqCycles : doread_finish(hw)
  \/ \E a \in AcqConfigArgs : JoystickConfig(a, TRUE, TRUE)

AcqSpec == AcqInit /\ [][AcqNext]_vars

----------------------------------------------------------------------------
(* The star commands over a wider choice of arguments, from the state the  *)
(* module is loaded in.                                                     *)

Switch == {"", "on", "off"}

ConfigOf(sm, cz, ez) ==
  [ConfigNone EXCEPT !.smooth = (sm = "on"), !.nosmooth = (sm = "off"),
                     !.ctrzone = (cz = "on"), !.noctrzone = (cz = "off"),
                     !.endzone = (ez = "on"), !.noendzone = (ez = "off")]

\* every consistent choice of the three switches, and each conflict next to
\* options that are valid
CmdConfigArgs ==
  { ConfigOf(sm, cz, ez) : sm \in Switch, cz \in Switch, ez \in Switch }
    \cup { [ConfigNone EXCEPT !.smooth = TRUE, !.nosmooth = TRUE,
                              !.noendzone = TRUE],
           [ConfigNone EXCEPT !.ctrzone = TRUE, !.noctrzone = TRUE,
                              !.nosmooth = TRUE, !.tolerance = IntBlock(10)],
           [ConfigNone EXCEPT !.endzone = TRUE, !.noendzone = TRUE,
                              !.noctrzone = TRUE, !.poll = IntBlock(5)] }

CmdJoyNums == {0, 1, 2, 0 - 1}
CmdAxes == {"X", "y", "Z"}

\* the values and the groups of fields given to *JoystickCalib
CmdValues == [min |-> 5, ctr |-> 50, max |-> 250, ctrzone |-> 3, endzone |-> 7,
              smooth |-> 4]

CmdCalibFields ==
  { [CalibNone EXCEPT !.min = IntBlock(CmdValues.min)],
    [CalibNone EXCEPT !.ctr = IntBlock(CmdValues.ctr),
                      !.max = IntBlock(CmdValues.max)],
    [CalibNone EXCEPT !.ctrzone = IntBlock(CmdValues.ctrzone),
                      !.endzone = IntBlock(CmdValues.endzone),
                      !.smooth = IntBlock(CmdValues.smooth)],
    CalibNone }

CmdCalibArgs ==
  { [f EXCEPT !.joynum = IntBlock(j), !.xory = xy] :
      f \in CmdCalibFields, j \in CmdJoyNums, xy \in CmdAxes }

CmdReInitArgs == { NoArg } \cup { IntBlock(j) : j \in CmdJoyNums }
CmdRuns == { <<HwBoth>>, <<HwCentre, HwCentreJit>> }

CmdNext ==
  \/ \E joy \in Ports : Joystick_Read(0, 0, joy, TRUE)
  \/ \E a \in CmdConfigArgs : JoystickConfig(a, TRUE, TRUE)
  \/ \E a \in CmdCalibArgs : JoystickCalib(a)
  \/ \E a \in CmdReInitArgs, run \in CmdRuns : JoystickReInit(a, run)

CmdSpec == Init /\ [][CmdNext]_vars

----------------------------------------------------------------------------
(* Averaging: the corner SWIs and *JoystickReInit on hardware runs that    *)
(* jitter to one side, lose a sample or never settle, with smoothing on or *)
(* off and several smoothing widths.                                       *)

AvRuns ==
  { << Cycle(19999, FineSteps, 40, 60, NEVER, NEVER),
       Cycle(19999, FineSteps, 40, 60, NEVER, NEVER),
       Cycle(50, FineSteps, 80, 60, NEVER, NEVER) >>,
    << Cycle(19999, FineSteps, 60, 20, 40, 40),
       Cycle(19999, GapSteps, 60, 20, 40, 40),
       Cycle(19999, FineSteps, 60, 40, 40, 40),
       Cycle(19999, FineSteps, 60, 40, 40, 40),
       Cycle(19999, FineSteps, 60, 40, 40, 40) >>,
    << Cycle(19999, FineSteps, 20, 20, NEVER, NEVER),
       Cycle(19999, FineSteps, 80, 80, NEVER, NEVER) >> }

AvConfigArgs == { [ConfigNone EXCEPT !.nosmooth = TRUE],
                  [ConfigNone EXCEPT !.tolerance = IntBlock(250)] }

AvCalibArgs ==
  { [CalibNone EXCEPT !.joynum = IntBlock(0), !.xory = "X",
                       !.smooth = IntBlock(0)],
    [CalibNone EXCEPT !.joynum = IntBlock(0), !.xory = "Y",
                       !.smooth = IntBlock(5)] }

AvReInitArgs == { NoArg, IntBlock(0), IntBlock(1) }

AvNext ==
  \/ \E run \in AvRuns : Joystick_CalibrateTopRight(run, TRUE)
  \/ \E run \in AvRuns : Joystick_CalibrateBottomLeft(run, TRUE)
  \/ \E a \in AvReInitArgs, run \in AvRuns : JoystickReInit(a, run)
  \/ \E a \in AvConfigArgs : JoystickConfig(a, TRUE, TRUE)
  \/ \E a \in AvCalibArgs : JoystickCalib(a)

AvSpec == Init /\ [][AvNext]_vars

----------------------------------------------------------------------------
(* Background acquisition under several timeouts, from the state the       *)
(* module is in after loading and one Joystick_Read.                       *)

\* -timeout 0, shorter than the samples taken, the default, above one
\* period of IOC timer 0, and above two periods
WaitTimeouts == {0, 100, 2000, 30000, 50000}

WaitConfigArgs ==
  { [ConfigNone EXCEPT !.timeout = IntBlock(t)] : t \in WaitTimeouts }

\* both axes of stick A complete; one never does (unplugged since the
\* module was loaded); neither does, with the timer wrapping early
WaitCycles ==
  { Cycle(19999, FineSteps, 40, 60, NEVER, NEVER),
    Cycle(19999, FineSteps, 80, 20, NEVER, NEVER),
    Cycle(50, FineSteps, 60, 2100, NEVER, NEVER),
    Cycle(19999, FineSteps, NEVER, 60, NEVER, NEVER),
    Cycle(50, FineSteps, NEVER, NEVER, 20, 40) }

WaitInit ==
  \E run \in InitRuns, joy \in Ports :
    polling_state(reinit_joysticks(Sticks, run, ZeroArray, ZeroArray, ZeroCal,
                                   {}, TRUE, TRUE, TRUE, MAX_GRANULARITY,
                                   MAX_AXIS_WAIT_TIME).cal, joy)

WaitNext ==
  \/ \E joy \in Ports : Joystick_Read(0, 0, joy, TRUE)
  \/ pollstick_handler(TRUE)
  \/ doread_enter
  \/ \E hw \in WaitCycles : doread_finish(hw)
  \/ \E a \in WaitConfigArgs : JoystickConfig(a, TRUE, TRUE)

WaitSpec == WaitInit /\ [][WaitNext]_vars

----------------------------------------------------------------------------
(* The axes left out of acquisitions: *JoystickReInit on hardware on which *)
(* axes are absent, come and go, complete too late or complete between two *)
(* samples too far apart, then acquisitions on hardware on which all four  *)
(* axes complete.                                                          *)

MaskRuns ==
  { << Cycle(19999, FineSteps, 40, 60, 20, 40) >>,
    << Cycle(19999, FineSteps, 40, 60, 40, NEVER),
       Cycle(19999, FineSteps, 40, 60, NEVER, NEVER),
       Cycle(50, FineSteps, 40, 60, NEVER, NEVER) >>,
    << Cycle(19999, FineSteps, NEVER, 60, 2100, 40) >>,
    << Cycle(19999, GapSteps, 60, 20, 60, NEVER) >> }

MaskReInitArgs == { NoArg, IntBlock(0), IntBlock(1) }

MaskCycles == { Cycle(19999, FineSteps, 60, 40, 60, 80) }

MaskNext ==
  \/ \E joy \in Ports : Joystick_Read(0, 0, joy, TRUE)
  \/ \E run \in MaskRuns : Joystick_CalibrateTopRight(run, TRUE)
  \/ \E a \in MaskReInitArgs, run \in MaskRuns : JoystickReInit(a, run)
  \/ pollstick_handler(TRUE)
  \/ doread_enter
  \/ \E hw \in MaskCycles : doread_finish(hw)

MaskSpec == Init /\ [][MaskNext]_vars

----------------------------------------------------------------------------
(* The polling delay: *JoystickConfig -poll with delays below, at and      *)
(* above the minimum, while polling and while not, the host refusing a     *)
(* call now and then.                                                      *)

\* -poll: negative, 0, 1, the minimum, the default and others
PollValues == {0 - 5, 0, 1, 2, 3, 7, 100}

PollConfigArgs ==
  {ConfigNone} \cup { [ConfigNone EXCEPT !.poll = IntBlock(v)] : v \in PollValues }

PollNext ==
  \/ \E joy \in Ports, ok \in HostOutcomes : Joystick_Read(0, 0, joy, ok)
  \/ \E a \in PollConfigArgs, ok1 \in HostOutcomes, ok2 \in HostOutcomes :
       JoystickConfig(a, ok1, ok2)
  \/ \E ok \in HostOutcomes : pollstick_handler(ok)
  \/ \E ok \in HostOutcomes : stoppoll_handler(ok)
  \/ doread_enter
  \/ \E hw \in PollCycles : doread_finish(hw)

PollSpec == Init /\ [][PollNext]_vars

----------------------------------------------------------------------------
(* The coefficients: the zone switches of *JoystickConfig, *JoystickCalib, *)
(* *JoystickReInit and the corner SWIs in any order.                       *)

SyncConfigArgs ==
  { [ConfigNone EXCEPT !.noctrzone = TRUE],
    [ConfigNone EXCEPT !.ctrzone = TRUE],
    [ConfigNone EXCEPT !.noendzone = TRUE],
    [ConfigNone EXCEPT !.endzone = TRUE],
    [ConfigNone EXCEPT !.noctrzone = TRUE, !.endzone = TRUE],
    [ConfigNone EXCEPT !.smooth = TRUE, !.tolerance = IntBlock(40)] }

SyncCalibArgs ==
  { [CalibNone EXCEPT !.joynum = IntBlock(0), !.xory = "X",
                       !.min = IntBlock(5), !.ctr = IntBlock(60),
                       !.max = IntBlock(250)],
    [CalibNone EXCEPT !.joynum = IntBlock(0), !.xory = "y",
                       !.ctrzone = IntBlock(9), !.endzone = IntBlock(7)],
    [CalibNone EXCEPT !.joynum = IntBlock(1), !.xory = "Y",
                       !.ctr = IntBlock(10), !.ctrzone = IntBlock(21)] }

SyncReInitArgs == { NoArg, IntBlock(1) }

SyncNext ==
  \/ \E joy \in Ports : Joystick_Read(0, 1, joy, TRUE)
  \/ \E run \in TopRightRuns : Joystick_CalibrateTopRight(run, TRUE)
  \/ \E run \in BottomLeftRuns : Joystick_CalibrateBottomLeft(run, TRUE)
  \/ \E a \in SyncConfigArgs : JoystickConfig(a, TRUE, TRUE)
  \/ \E a \in SyncCalibArgs : JoystickCalib(a)
  \/ \E a \in SyncReInitArgs, run \in ReInitRuns : JoystickReInit(a, run)

SyncSpec == Init /\ [][SyncNext]_vars

----------------------------------------------------------------------------
\* Steps of the behaviour, recognised from outside the handlers

TopRightStep ==
  used'.calls = used.calls + 1 /\ last'.op = "CalibrateTopRight"

BottomLeftStep ==
  used'.calls = used.calls + 1 /\ last'.op = "CalibrateBottomLeft"

ReadStep ==
  \E s \in ReadSticks, rc \in ReasonCodes, joy \in Ports, ok \in BOOLEAN :
    Joystick_Read(s, rc, joy, ok)

\* a Read that got past the calibration gate and whose timer registration,
\* if any, the host accepted
AcceptedReadStep ==
  \E s \in ReadSticks, rc \in ReasonCodes, joy \in Ports :
    Joystick_Read(s, rc, joy, TRUE)

MonitorStep(ok) == stoppoll_handler(ok)

TickStep(ok) == pollstick_handler(ok)

\* the larger of two unsigned 32-bit words, for each stick
MaxU(a, b) == Arr(LAMBDA s : IF LtU(a[s], b[s]) THEN b[s] ELSE a[s])

FrameFields ==
  {"x_ctr", "y_ctr", "x_ctr_deadz", "y_ctr_deadz", "x_smooth", "y_smooth"}

DerivedFields ==
  {"x_ctr_low", "y_ctr_low", "x_ctr_high", "y_ctr_high",
   "x_low_scaler", "x_high_scaler", "y_low_scaler", "y_high_scaler"}

Outstanding == host.callbacks + Len(doread)

AcquisitionRunning == doread # << >> /\ doread[Len(doread)] = "read"

----------------------------------------------------------------------------
\* C1: a Read fails with CalibrationIncomplete exactly when, as it is made,
\* the calibration state is not None (one corner captured, the other not).
C1_ReadGate ==
  [][\A s \in ReadSticks, rc \in ReasonCodes, joy \in Ports, ok \in BOOLEAN :
       Joystick_Read(s, rc, joy, ok) =>
         ((last'.err = "error_calib") <=> (calib_status # CALIB_NONE))]_vars

\* a Read was refused while the top right corner alone had been captured
C1_Witness ==
  /\ last.op = "Read"
  /\ last.err = "error_calib"
  /\ calib_status = CALIB_TOP_RIGHT

\* C2: once one corner is captured the calibration state stays what it is
\* under every step (Read, Config, Calib, ReInit, the same corner again,
\* ticks, monitor checks, acquisitions) other than the complementary corner
\* call, and that call brings it back to None.
C2_PendingPersists ==
  [][calib_status # CALIB_NONE =>
       IF \/ (calib_status = CALIB_TOP_RIGHT /\ BottomLeftStep)
          \/ (calib_status = CALIB_BOTTOM_LEFT /\ TopRightStep)
       THEN calib_status' = CALIB_NONE
       ELSE calib_status' = calib_status]_vars

\* the top right corner is still pending after a ReInit command
C2_Witness ==
  /\ calib_status = CALIB_TOP_RIGHT
  /\ last.op = "JoystickReInit"
  /\ last.err = "none"

\* C3: when a corner call follows the call that captured the other corner,
\* in either order, the state returns to None, the end dead zone of each axis is the
\* larger of the deviations the two calls measured, and the derived
\* coefficients are those recalc_coefficients computes from the new limits.
C3_Completion ==
  [][(\/ (TopRightStep /\ calib_status = CALIB_BOTTOM_LEFT
                       /\ last.op = "CalibrateBottomLeft")
      \/ (BottomLeftStep /\ calib_status = CALIB_TOP_RIGHT
                         /\ last.op = "CalibrateTopRight")) =>
       /\ calib_status' = CALIB_NONE
       /\ cal'.x_end_deadz = MaxU(last.x_jitdist, last'.x_jitdist)
       /\ cal'.y_end_deadz = MaxU(last.y_jitdist, last'.y_jitdist)
       /\ cal' = recalc_coefficients(Sticks, cal', ctr_zones, end_zones)]_vars

\* bottom left completed a calibration begun by top right, and the envelope
\* kept is the one top right measured
C3_Witness ==
  /\ calib_status = CALIB_NONE
  /\ last.op = "CalibrateBottomLeft"
  /\ last.before = CALIB_TOP_RIGHT
  /\ LtU(last.x_jitdist[0], cal.x_end_deadz[0])

\* C4: a top right call writes the maximum of X and the minimum of Y from its
\* own averages and leaves the other limits, the centres, the centre dead
\* zones and the smoothing thresholds alone; a bottom left call is the mirror
\* image. A call that does not complete the calibration stores its own
\* deviation as the end dead zone and leaves the derived coefficients alone,
\* so a repeated corner call replaces what the earlier one stored.
C4_CornerFrame ==
  [][/\ TopRightStep =>
          /\ cal'.x_max = last'.x_array
          /\ cal'.y_min = last'.y_array
          /\ cal'.x_min = cal.x_min
          /\ cal'.y_max = cal.y_max
     /\ BottomLeftStep =>
          /\ cal'.x_min = last'.x_array
          /\ cal'.y_max = last'.y_array
          /\ cal'.x_max = cal.x_max
          /\ cal'.y_min = cal.y_min
     /\ (TopRightStep \/ BottomLeftStep) =>
          /\ \A f \in FrameFields : cal'[f] = cal[f]
          /\ calib_status' # CALIB_NONE =>
               /\ cal'.x_end_deadz = last'.x_jitdist
               /\ cal'.y_end_deadz = last'.y_jitdist
               /\ \A f \in DerivedFields : cal'[f] = cal[f]]_vars

\* top right was called a second time while it was already captured
C4_Witness ==
  /\ last.op = "CalibrateTopRight"
  /\ last.before = CALIB_TOP_RIGHT
  /\ calib_status = CALIB_TOP_RIGHT
  /\ cal.x_max = last.x_array

\* C5 (as stated): whenever the calibration state is not None nothing is
\* polling: the flag is clear, no ticker is registered and no deferred
\* acquisition is running.
C5_AsStated ==
  calib_status # CALIB_NONE =>
    (~polling_stick /\ host.tickers = 0 /\ ~AcquisitionRunning)

C7_AsStated ==
  [][(ReadStep /\ calib_status = CALIB_NONE /\ ~polling_stick) =>
       /\ polling_stick'
       /\ x_axis' = cal.x_ctr
       /\ y_axis' = cal.y_ctr]_vars

\* C7: a Read made with the state None while Polling changes neither the
\* cached values nor the ticker; made while Idle it reseeds the cached values
\* from the centres and registers the ticker with the current interval when
\* the host accepts the registration, and otherwise returns the host's error,
\* reseeds nothing and leaves the scheduler Idle.
C7_ReadStarts ==
  [][\A s \in ReadSticks, rc \in ReasonCodes, joy \in Ports, ok \in BOOLEAN :
       (Joystick_Read(s, rc, joy, ok) /\ calib_status = CALIB_NONE) =>
         /\ polling_stick =>
              /\ polling_stick'
              /\ x_axis' = x_axis
              /\ y_axis' = y_axis
              /\ host' = host
         /\ (~polling_stick /\ ok) =>
              /\ polling_stick'
              /\ x_axis' = cal.x_ctr
              /\ y_axis' = cal.y_ctr
              /\ host'.tickers = host.tickers + 1
              /\ host'.period = poll_freq
         /\ (~polling_stick /\ ~ok) =>
              /\ ~polling_stick'
              /\ last'.err = "os_error"
              /\ x_axis' = x_axis
              /\ y_axis' = y_axis
              /\ host' = host]_vars

\* after Config changed the interval, a Read made while Idle started polling
\* with the new interval and the cached values at the centres
C7_Witness ==
  /\ last.op = "Read"
  /\ last.err = "none"
  /\ polling_stick
  /\ host.tickers = 1
  /\ host.period = poll_freq
  /\ poll_freq # POLL_FREQUENCY - 1
  /\ x_axis = cal.x_ctr
  /\ y_axis = cal.y_ctr

\* C8 (as stated): a monitor check that finds the mark clear while Polling
\* always ends with the scheduler Idle.
C8_AsStated ==
  [][\A ok \in BOOLEAN :
       (MonitorStep(ok) /\ ~swi_in_last_min /\ polling_stick) =>
         ~polling_stick']_vars

\* C8: a monitor check that finds the mark set clears it and changes nothing
\* else; one that finds it clear while Polling removes the ticker and goes
\* Idle when the host accepts the removal, and otherwise stays Polling with
\* the ticker registered; one that finds it clear while Idle changes
\* nothing. Every check ends with the mark clear and only a Read sets it.
C8_MonitorCheck ==
  [][/\ \A ok \in BOOLEAN : MonitorStep(ok) =>
          /\ ~swi_in_last_min'
          /\ swi_in_last_min =>
               (polling_stick' = polling_stick /\ host' = host)
          /\ (~swi_in_last_min /\ polling_stick /\ ok) =>
               (~polling_stick' /\ host' = remove_ticker(host))
          /\ (~swi_in_last_min /\ polling_stick /\ ~ok) =>
               (polling_stick' /\ host' = host)
          /\ (~swi_in_last_min /\ ~polling_stick) =>
               (~polling_stick' /\ host' = host)
     /\ (~swi_in_last_min /\ swi_in_last_min') => ReadStep]_vars

\* two checks after the last Read the scheduler is Idle with no ticker
C8_Witness ==
  /\ ~polling_stick
  /\ ~swi_in_last_min
  /\ host.tickers = 0
  /\ last.op = "Read"
  /\ last.err = "none"
  /\ calib_status = CALIB_NONE
  /\ used.fails = 0

\* C9: the scheduler starts Idle, and the only step that sets the polling
\* flag or registers a ticker where there was none is a Read made with the
\* calibration state None.
C9_OnlyReadStarts ==
  /\ ~polling_stick /\ host.tickers = 0
  /\ [][((~polling_stick /\ polling_stick') \/
         (host.tickers = 0 /\ host'.tickers > 0)) =>
          (AcceptedReadStep /\ calib_status = CALIB_NONE)]_vars

\* the first step of the module's life was a Read, and it started polling
C9_Witness ==
  /\ polling_stick
  /\ host.tickers = 1
  /\ last.op = "Read"
  /\ last.err = "none"
  /\ used.calls = 0
  /\ used.reads = 0
  /\ used.fails = 0

\* C10: at most one deferred acquisition is requested or running at any
\* time, and a tick that finds one outstanding requests nothing.
C10_OneOutstanding ==
  /\ [](Outstanding <= 1)
  /\ [][\A ok \in BOOLEAN : (TickStep(ok) /\ Outstanding >= 1) =>
          UNCHANGED <<host, doread, callback_pending, callback_free>>]_vars

\* a deferred acquisition is running while the ticker is still registered
C10_Witness ==
  /\ AcquisitionRunning
  /\ ~callback_free
  /\ host.tickers > 0
  /\ host.callbacks = 0

\* C11: the polling flag is set exactly when the pollstick ticker is
\* registered with the host (and it is registered at most once), whatever
\* host calls failed on the way: the start in Read, the stop and restart of
\* Config -poll, the stop at a corner call, in the monitor and in finalise.
C11_FlagMatchesTicker ==
  /\ polling_stick <=> host.tickers > 0
  /\ host.tickers <= 1

\* a Read made while Idle was refused its ticker by the host: it returned the
\* host's error and the scheduler is still Idle
C11_Witness ==
  /\ last.op = "Read"
  /\ last.err = "os_error"
  /\ ~polling_stick
  /\ host.tickers = 0
  /\ used.fails = 1

\* C12: a Read performs no acquisition cycle; it changes neither the
\* calibration data nor the coefficients, and it changes the cached timings
\* only when it restarts polling from Idle, to the centres; what it returns
\* is worked out from the cached timings as they are after that.
C12_ReadUsesCache ==
  [][\A s \in ReadSticks, rc \in ReasonCodes, joy \in Ports, ok \in BOOLEAN :
       Joystick_Read(s, rc, joy, ok) =>
         /\ cal' = cal
         /\ axes_mask' = axes_mask
         /\ used'.reads = used.reads
         /\ doread' = doread
         /\ (polling_stick \/ last'.err \in {"error_calib", "os_error"}) =>
              (x_axis' = x_axis /\ y_axis' = y_axis)
         /\ (~polling_stick /\ last'.err \notin {"error_calib", "os_error"}) =>
              (x_axis' = cal.x_ctr /\ y_axis' = cal.y_ctr)
         /\ (last'.err = "none" /\ rc = 0) =>
              last'.r0 = (y8(cal, s, y_axis'[s]) % 256)
                           + ((x8(cal, s, x_axis'[s]) % 256) * 256)
                           + (buttons(s, joy) * K16)
         /\ (last'.err = "none" /\ rc = 1) =>
              /\ last'.r0 = Make32(x16(cal, s, x_axis'[s]), y16(cal, s, y_axis'[s]))
              /\ last'.r1 = buttons(s, joy)]_vars

\* a Read answered from timings that an acquisition, not the reseed, cached
C12_Witness ==
  /\ last.op = "Read"
  /\ last.err = "none"
  /\ used.reads >= 1
  /\ x_axis[0] # cal.x_ctr[0]
  /\ last.r0 = Make32(x16(cal, 0, x_axis[0]), y16(cal, 0, y_axis[0]))
  /\ last.r0 # Make32(x16(cal, 0, cal.x_ctr[0]), y16(cal, 0, cal.y_ctr[0]))

----------------------------------------------------------------------------
\* The conversions, looked at from outside

\* does the product of the 16-bit a16 and the 32-bit word b fit in 32 bits?
FitsLow(a16, b) ==
  /\ Mul16(a16, Hi16(b))[1] = 0
  /\ Mul16(a16, Hi16(b))[2] + Mul16(a16, Lo16(b))[1] < K16

\* does scaler * distance, as unsigned 32-bit words, fit in 32 bits?
NoWrap(scaler, distance) ==
  IF Hi16(scaler) = 0 THEN FitsLow(Lo16(scaler), distance)
  ELSE IF Hi16(distance) = 0 THEN FitsLow(Lo16(distance), scaler)
  ELSE FALSE

\* the product the conversion of raw forms on each axis fits in 32 bits
XNoWrap(c, s, raw) ==
  IF GtU(raw, c.x_ctr_low[s])
  THEN LtU(raw, c.x_ctr_high[s])
         \/ NoWrap(c.x_high_scaler[s], Sub32(raw, c.x_ctr_high[s]))
  ELSE NoWrap(c.x_low_scaler[s], Sub32(c.x_ctr_low[s], raw))

YNoWrap(c, s, raw) ==
  IF GtU(raw, c.y_ctr_low[s])
  THEN LtU(raw, c.y_ctr_high[s])
         \/ NoWrap(c.y_high_scaler[s], Sub32(raw, c.y_ctr_high[s]))
  ELSE NoWrap(c.y_low_scaler[s], Sub32(c.y_ctr_low[s], raw))

\* raw lies in the centre dead zone, its two ends included
AtCentre(raw, low, high) ==
  raw = low \/ raw = high \/ (GeU(raw, low) /\ LeU(raw, high))

\* the X field of R0 as Joystick_Read returns it: bits 8-15 for reason code
\* 0, bits 16-31 for reason code 1
XField(rc, r0) == IF rc = 0 THEN (Lo16(r0) \div 256) ELSE Hi16(r0)

\* the scenario calibration of stick 0, axis X, coefficients recomputed
Scenario ==
  /\ cal.x_ctr[0] = 703
  /\ cal.x_ctr_deadz[0] = 48
  /\ cal.x_min[0] = 0
  /\ cal.x_max[0] = 1406
  /\ cal.x_end_deadz[0] = 0
  /\ ctr_zones
  /\ cal = recalc_coefficients({0}, cal, ctr_zones, end_zones)

\* the scaler the specification gives for the divisor d, a 32-bit word read
\* as a signed number
ExpectedScaler(d) == IF d <= 0 THEN 0 ELSE SCALER_ONE \div d

EndDz(deadz) == IF end_zones THEN deadz ELSE 0

\* C13: whatever the cached timings and the calibration (manual overrides
\* that break min <= ctrLow <= ctr <= ctrHigh <= max included, products
\* taken modulo 2^32), the 8-bit X and Y that Read works out lie in
\* -127..127 and the 16-bit ones in 0..65535.
C13_ClampedRange ==
  \A s \in Sticks :
    /\ x8(cal, s, x_axis[s]) \in -127 .. 127
    /\ y8(cal, s, y_axis[s]) \in -127 .. 127
    /\ x16(cal, s, x_axis[s]) \in 0 .. 65535
    /\ y16(cal, s, y_axis[s]) \in 0 .. 65535

\* a Read answered 127 for X although the scaled offset, a product that
\* wrapped, was larger
C13_Witness ==
  /\ last.op = "Read"
  /\ last.err = "none"
  /\ GtU(x_axis[0], cal.x_ctr_high[0])
  /\ ~NoWrap(cal.x_high_scaler[0], Sub32(x_axis[0], cal.x_ctr_high[0]))
  /\ scaled(cal.x_high_scaler[0], Sub32(x_axis[0], cal.x_ctr_high[0]),
            SCALER_FRAC_SHIFT + 8) > 127
  /\ XField(0, last.r0) = 127

C15_AsStated ==
  \A s \in Sticks :
    /\ AtCentre(x_axis[s], cal.x_ctr_low[s], cal.x_ctr_high[s]) =>
         (x8(cal, s, x_axis[s]) = 0 /\ x16(cal, s, x_axis[s]) = 32767)
    /\ AtCentre(y_axis[s], cal.y_ctr_low[s], cal.y_ctr_high[s]) =>
         (y8(cal, s, y_axis[s]) = 0 /\ y16(cal, s, y_axis[s]) = 32767)

\* C16 (as stated): under the scenario calibration a Read of stick 0 gives,
\* for X, 0 and 0x7fff with 703 cached, -127 and 0 with 0 cached, 127 and
\* 0xffff with 1406 cached.
C16_AsStated ==
  [][\A rc \in {0, 1}, joy \in Ports :
       (Joystick_Read(0, rc, joy, TRUE) /\ Scenario) =>
         /\ x_axis[0] = 703 =>
              XField(rc, last'.r0) = (IF rc = 0 THEN 0 ELSE 32767)
         /\ x_axis[0] = 0 =>
              XField(rc, last'.r0) = (IF rc = 0 THEN 256 - 127 ELSE 0)
         /\ x_axis[0] = 1406 =>
              XField(rc, last'.r0) = (IF rc = 0 THEN 127 ELSE 65535)]_vars

\* C17: after every recalculation each scaler is 0 when its divisor,
\* ctrLow - (min + endDz) or (max - endDz) - ctrHigh, is zero or negative,
\* and (32768 << 14) divided by the divisor otherwise; the command that
\* recalculates reports no error.
C17_Scalers ==
  /\ \A s \in Sticks :
       /\ cal.x_low_scaler[s] = ExpectedScaler(
            Sub32(cal.x_ctr_low[s], Add32(cal.x_min[s], EndDz(cal.x_end_deadz[s]))))
       /\ cal.x_high_scaler[s] = ExpectedScaler(
            Sub32(Sub32(cal.x_max[s], EndDz(cal.x_end_deadz[s])), cal.x_ctr_high[s]))
       /\ cal.y_low_scaler[s] = ExpectedScaler(
            Sub32(cal.y_ctr_low[s], Add32(cal.y_min[s], EndDz(cal.y_end_deadz[s]))))
       /\ cal.y_high_scaler[s] = ExpectedScaler(
            Sub32(Sub32(cal.y_max[s], EndDz(cal.y_end_deadz[s])), cal.y_ctr_high[s]))
  /\ last.op \in {"JoystickCalib", "JoystickConfig"} => last.err = "none"

\* a calibration with one slope of negative width and one of width 0 was
\* set, and both scalers are 0
C17_Witness ==
  /\ last.op = "JoystickCalib"
  /\ Sub32(cal.x_ctr_low[0], Add32(cal.x_min[0], EndDz(cal.x_end_deadz[0]))) < 0
  /\ cal.x_low_scaler[0] = 0
  /\ Sub32(Sub32(cal.y_max[0], EndDz(cal.y_end_deadz[0])), cal.y_ctr_high[0]) = 0
  /\ cal.y_high_scaler[0] = 0

----------------------------------------------------------------------------
\* Acquisitions, looked at from outside

\* a deferred acquisition on the hardware cycle hw
AcquisitionStep(hw) == AcquisitionRunning /\ doread_finish(hw)

\* the raw timing the cycle hw yields for axis bit k (UINT_MAX: none)
RawTiming(hw, k) == read_timing(axes_mask, hw, tolerance, max_wait).new[k]

\* the axis bit k has not dropped when the timing loop stops
StillCharging(hw, k) ==
  hw.done[k] > read_timing(axes_mask, hw, tolerance, max_wait).elapsed

\* the smoother of the specification, on timings small enough for plain
\* arithmetic
Distance(prev, new) == IF new >= prev THEN new - prev ELSE prev - new

RefSmooth(prev, new, sm, width) ==
  IF ~sm \/ width = 0 THEN new
  ELSE IF Distance(prev, new) <= width THEN ((3 * prev) + new) \div 4
  ELSE IF Distance(prev, new) <= 2 * width THEN (prev + new) \div 2
  ELSE IF Distance(prev, new) <= 4 * width THEN (prev + (3 * new)) \div 4
  ELSE new

\* C18 (as stated): an acquisition stores, for each axis it got a timing
\* for, what the reference smoother makes of the cached value, the new
\* timing and the width.
C18_AsStated ==
  [][\A hw \in AcqCycles : AcquisitionStep(hw) =>
       \A s \in Sticks :
         /\ RawTiming(hw, XBit(s)) # UINT_MAX =>
              x_axis'[s] = RefSmooth(x_axis[s], RawTiming(hw, XBit(s)),
                                     smooth, cal.x_smooth[s])
         /\ RawTiming(hw, YBit(s)) # UINT_MAX =>
              y_axis'[s] = RefSmooth(y_axis[s], RawTiming(hw, YBit(s)),
                                     smooth, cal.y_smooth[s])]_vars

\* C19: with smoothing on and a width above 0, an acquisition whose new
\* timing equals the cached value leaves the cached value as it is, also
\* when that value is smaller than the width.
C19_FixedPoint ==
  [][\A hw \in AcqCycles : (AcquisitionStep(hw) /\ smooth) =>
       \A s \in Sticks :
         /\ (cal.x_smooth[s] # 0 /\ RawTiming(hw, XBit(s)) = x_axis[s]) =>
              x_axis'[s] = x_axis[s]
         /\ (cal.y_smooth[s] # 0 /\ RawTiming(hw, YBit(s)) = y_axis[s]) =>
              y_axis'[s] = y_axis[s]]_vars

\* the first acquisition timed X at 20, the cached value, under a width of
\* 25, and Y at 60
C19_Witness ==
  /\ used.reads = 1
  /\ smooth
  /\ cal.x_smooth[0] = 25
  /\ cal.x_ctr[0] = 20
  /\ x_axis[0] = 20
  /\ y_axis[0] = 60

\* C20: an acquisition reports as timed out every requested axis whose bit
\* has not dropped when its timing loop stops, leaves the cached value of
\* such an axis and of every axis not requested as it was, and reports no
\* error.
C20_TimedOutKept ==
  [][\A hw \in AcqCycles : AcquisitionStep(hw) =>
       /\ \A s \in Sticks :
            /\ (XBit(s) \notin axes_mask \/ StillCharging(hw, XBit(s))) =>
                 x_axis'[s] = x_axis[s]
            /\ (YBit(s) \notin axes_mask \/ StillCharging(hw, YBit(s))) =>
                 y_axis'[s] = y_axis[s]
       /\ \A k \in axes_mask : StillCharging(hw, k) =>
            k \in read_joystick(axes_mask, hw, x_axis, y_axis, smooth, cal.x_smooth,
                                cal.y_smooth, tolerance, max_wait).mask
       /\ last' = last]_vars

\* an acquisition in which X timed out has kept the cached X and stored a
\* new Y
C20_Witness ==
  /\ used.reads = 1
  /\ ~AcquisitionRunning
  /\ cal.x_ctr[0] = 100
  /\ cal.x_smooth[0] = 0
  /\ x_axis[0] = 100
  /\ y_axis[0] = 80

----------------------------------------------------------------------------
\* The star commands, looked at from outside

\* no flag, coefficient, calibration value or cached timing changes, nor
\* anything the scheduler holds
NothingConfigured ==
  UNCHANGED <<cal, x_axis, y_axis, axes_mask, calib_status, pollvars, cfgvars,
              host, doread>>

\* C21 (as stated): a *JoystickConfig that gives -endzone and no conflicting
\* switch leaves end_zones set and the coefficients of both sticks computed
\* with the end dead zones, whatever the three flags were; -ctrzone leaves
\* ctr_zones set and -smooth leaves smooth set.
C21_AsStated ==
  [][\A a \in CmdConfigArgs :
       (JoystickConfig(a, TRUE, TRUE) /\ ~config_conflict(a)) =>
         /\ a.endzone =>
              /\ end_zones'
              /\ cal' = recalc_coefficients(Sticks, cal, ctr_zones', TRUE)
         /\ a.ctrzone => ctr_zones'
         /\ a.smooth => smooth']_vars

CalibOptions == {"min", "ctr", "max", "ctrzone", "endzone", "smooth"}
XName == [min |-> "x_min", ctr |-> "x_ctr", max |-> "x_max",
          ctrzone |-> "x_ctr_deadz", endzone |-> "x_end_deadz",
          smooth |-> "x_smooth"]
YName == [min |-> "y_min", ctr |-> "y_ctr", max |-> "y_max",
          ctrzone |-> "y_ctr_deadz", endzone |-> "y_end_deadz",
          smooth |-> "y_smooth"]
NamedAxis(xy) == IF xy \in {"x", "X"} THEN XName ELSE YName
OtherAxis(xy) == IF xy \in {"x", "X"} THEN YName ELSE XName

CalibArg(f, j, xy) == [f EXCEPT !.joynum = IntBlock(j), !.xory = xy]

\* the coefficients of the sticks of `sticks` are those of their calibration
\* values under the two zone flags
Recomputed(sticks, c, cz, ez) == recalc_coefficients(sticks, c, cz, ez) = c

OtherSticksKept(sticks) ==
  \A s \in Sticks \ sticks : \A n \in CalFields : cal'[n][s] = cal[n][s]

\* C23: *JoystickCalib for stick j and axis X or Y sets the fields it was
\* given on that axis of that stick and keeps the others, keeps the six
\* values of the other axis and the whole calibration of the other stick,
\* leaves the coefficients of stick j recomputed, and changes no cached
\* timing, no flag, and nothing of the calibration state or the polling.
C23_CalibFrame ==
  [][\A f \in CmdCalibFields, j \in Sticks, xy \in {"X", "y"} :
       JoystickCalib(CalibArg(f, j, xy)) =>
         /\ last'.err = "none"
         /\ \A o \in CalibOptions :
              /\ cal'[NamedAxis(xy)[o]][j] =
                   IF f[o] # NoArg THEN CmdValues[o]
                   ELSE cal[NamedAxis(xy)[o]][j]
              /\ cal'[OtherAxis(xy)[o]][j] = cal[OtherAxis(xy)[o]][j]
         /\ OtherSticksKept({j})
         /\ Recomputed({j}, cal', ctr_zones, end_zones)
         /\ UNCHANGED <<x_axis, y_axis, axes_mask, calib_status, pollvars,
                        cfgvars, host, doread>>]_vars

\* "*JoystickCalib 1 y -ctr 50 -max 250" was obeyed while polling
C23_Witness ==
  /\ last.op = "JoystickCalib"
  /\ last.err = "none"
  /\ polling_stick
  /\ cal.y_ctr[1] = CmdValues.ctr
  /\ cal.y_max[1] = CmdValues.max
  /\ cal.x_max[1] # CmdValues.max
  /\ cal.y_max[0] # CmdValues.max

\* C24 (as stated): a stick number outside 0..1 makes *JoystickCalib and
\* *JoystickReInit fail with bad_joy_num, and an axis name other than X or Y
\* makes *JoystickCalib fail with the syntax error, nothing being changed.
C24_AsStated ==
  [][/\ \A f \in CmdCalibFields, j \in CmdJoyNums, xy \in CmdAxes :
          JoystickCalib(CalibArg(f, j, xy)) =>
            /\ j \notin Sticks => last'.err = "bad_joy_num"
            /\ xy = "Z" => last'.err = "error_command_syntax"
            /\ (j \notin Sticks \/ xy = "Z") => NothingConfigured
     /\ \A j \in CmdJoyNums \ Sticks, run \in CmdRuns :
          JoystickReInit(IntBlock(j), run) =>
            last'.err = "bad_joy_num" /\ NothingConfigured]_vars

\* C24: a stick number outside 0..1 makes *JoystickCalib, whatever the axis
\* name, and *JoystickReInit fail with bad_joy_num; with a stick number of
\* 0 or 1, an axis name other than X or Y makes *JoystickCalib fail with the
\* syntax error; in each case nothing is changed.
C24_StickThenAxis ==
  [][/\ \A f \in CmdCalibFields, j \in CmdJoyNums, xy \in CmdAxes :
          JoystickCalib(CalibArg(f, j, xy)) =>
            /\ j \notin Sticks => last'.err = "bad_joy_num"
            /\ (j \in Sticks /\ xy = "Z") => last'.err = "error_command_syntax"
            /\ (j \notin Sticks \/ xy = "Z") => NothingConfigured
     /\ \A j \in CmdJoyNums \ Sticks, run \in CmdRuns :
          JoystickReInit(IntBlock(j), run) =>
            last'.err = "bad_joy_num" /\ NothingConfigured]_vars

\* while polling, the first command was a *JoystickCalib refused for its
\* stick number: the calibration is the one the module was loaded with
C24_Witness ==
  /\ last.op = "JoystickCalib"
  /\ last.err = "bad_joy_num"
  /\ used.calls = 1
  /\ polling_stick
  /\ cal.x_min[0] = 0
  /\ cal.x_max[1] = 2 * REINIT_AXIS
  /\ axes_mask = {PC_JOY_A_X, PC_JOY_A_Y}

\* the timings a hardware run gives for axis bit k
RunTimings(run, k) == { run[i].done[k] : i \in 1 .. Len(run) }

\* v is an average of what was cached for axis k over the run: of its
\* timings, or of REINIT_AXIS if the bit never drops
AveragedOver(v, run, k) ==
  IF NEVER \in RunTimings(run, k) THEN v = REINIT_AXIS
  ELSE \E lo \in RunTimings(run, k), hi \in RunTimings(run, k) :
         lo <= v /\ v <= hi

ReInitSet(a) == IF a = NoArg THEN Sticks ELSE {eval_expr(a)}

\* C26: *JoystickReInit leaves every axis of every stick it was asked for
\* with min = 0, ctr an average of the timings sampled and max = 2 * ctr,
\* with the coefficients recomputed and smooth as it was; the calibration
\* of the other sticks is unchanged.
C26_ReInitLimits ==
  [][\A a \in {NoArg, IntBlock(0), IntBlock(1)}, run \in CmdRuns :
       (last'.op = "JoystickReInit" /\ JoystickReInit(a, run)) =>
         /\ \A s \in ReInitSet(a) :
              /\ cal'.x_min[s] = 0
              /\ cal'.y_min[s] = 0
              /\ AveragedOver(cal'.x_ctr[s], run, XBit(s))
              /\ AveragedOver(cal'.y_ctr[s], run, YBit(s))
              /\ cal'.x_max[s] = 2 * cal'.x_ctr[s]
              /\ cal'.y_max[s] = 2 * cal'.y_ctr[s]
         /\ Recomputed(ReInitSet(a), cal', ctr_zones, end_zones)
         /\ smooth' = smooth
         /\ OtherSticksKept(ReInitSet(a))]_vars

\* with smoothing off, a *JoystickReInit found stick 1, which was absent
\* when the module was loaded
C26_Witness ==
  /\ last.op = "JoystickReInit"
  /\ last.err = "none"
  /\ ~smooth
  /\ PC_JOY_B_X \in axes_mask
  /\ cal.x_ctr[1] = 20
  /\ cal.x_max[1] = 40

\* C25: with no calibration pending, Joystick_Read fails with bad_reason for
\* a reason code other than 0 and 1, whatever the stick number; for a stick
\* number of 2 or more it succeeds with R0 = 0 for reason code 0 and with
\* R0 = 0x7fff7fff, R1 = 0 for reason code 1.
C25_ReasonAndStick ==
  [][\A s \in ScaleSticks, rc \in ReasonCodes, joy \in Ports :
       (calib_status = CALIB_NONE /\ Joystick_Read(s, rc, joy, TRUE)) =>
         /\ last'.op = "Read"
         /\ rc \notin {0, 1} => last'.err = "bad_reason"
         /\ (rc = 0 /\ s >= 2) => (last'.err = "none" /\ last'.r0 = 0)
         /\ (rc = 1 /\ s >= 2) =>
              /\ last'.err = "none"
              /\ last'.r0 = (32767 * K16) + 32767
              /\ last'.r1 = 0]_vars

\* a Joystick_Read was refused for its reason code after the calibration
\* was changed
C25_Witness ==
  /\ last.op = "Read"
  /\ last.err = "bad_reason"
  /\ calib_status = CALIB_NONE
  /\ used.calls = 1

----------------------------------------------------------------------------
\* Averaging, looked at from outside: the acquisition cycles are replayed
\* one after the other and the settle phase, the mean and the extremes are
\* worked out from what each cycle left cached

\* seq[1] is what was cached on entry, seq[i + 1] what read_joystick returned
\* in cycle i
RECURSIVE Replay(_, _, _, _, _, _, _, _, _, _)
Replay(j, mask, run, n0, sm, xs, ys, tol, mw, seq) ==
  IF j = 0 THEN seq
  ELSE Replay(j - 1, mask, run, n0, sm, xs, ys, tol, mw,
              Append(seq,
                     read_joystick(mask, RunAt(run, (n0 + Len(seq)) - 1),
                                   seq[Len(seq)].x_axis, seq[Len(seq)].y_axis,
                                   sm, xs, ys, tol, mw)))

Cached(sticks, run, n0, xa0, ya0, mask, sm, xs, ys, tol, mw) ==
  Replay(SETTLE_LOOPS + NUM_TEST_RUNS, StickMask(sticks) \cap mask, run, n0,
         sm, xs, ys, tol, mw,
         << [mask |-> {}, lost |-> {}, x_axis |-> xa0, y_axis |-> ya0] >>)

\* in cycle i, not the first, no stick of `sticks` lost a sample or moved by
\* more than twice its smoothing width
SteadyAt(seq, i, sticks, xs, ys) ==
  /\ i >= 2
  /\ \A s \in sticks :
       /\ s \notin seq[i + 1].lost
       /\ Distance(seq[i].x_axis[s], seq[i + 1].x_axis[s]) <= 2 * xs[s]
       /\ Distance(seq[i].y_axis[s], seq[i + 1].y_axis[s]) <= 2 * ys[s]

\* the number of cycles of the settle phase
SettleCycles(seq, sticks, xs, ys) ==
  IF \E i \in 1 .. SETTLE_LOOPS : SteadyAt(seq, i, sticks, xs, ys)
  THEN CHOOSE i \in 1 .. SETTLE_LOOPS :
         /\ SteadyAt(seq, i, sticks, xs, ys)
         /\ \A j \in 1 .. (i - 1) : ~SteadyAt(seq, j, sticks, xs, ys)
  ELSE SETTLE_LOOPS

\* the values cached for axis ax of stick s in the NUM_TEST_RUNS cycles that
\* follow k settle cycles: their sum from cycle `from` on, their truncated
\* mean and their extremes
Samples(seq, ax, s, k) ==
  { seq[i + 1][ax][s] : i \in (k + 1) .. (k + NUM_TEST_RUNS) }

RECURSIVE Total(_, _, _, _, _)
Total(seq, ax, s, from, to) ==
  IF from > to THEN 0
  ELSE seq[from + 1][ax][s] + Total(seq, ax, s, from + 1, to)

Mean(seq, ax, s, k) ==
  Total(seq, ax, s, k + 1, k + NUM_TEST_RUNS) \div NUM_TEST_RUNS

Lowest(seq, ax, s, k) ==
  CHOOSE v \in Samples(seq, ax, s, k) : \A w \in Samples(seq, ax, s, k) : v <= w

Highest(seq, ax, s, k) ==
  CHOOSE v \in Samples(seq, ax, s, k) : \A w \in Samples(seq, ax, s, k) : v >= w

Below(seq, ax, s, k) == Mean(seq, ax, s, k) - Lowest(seq, ax, s, k)
Above(seq, ax, s, k) == Highest(seq, ax, s, k) - Mean(seq, ax, s, k)

Smaller(a, b) == IF a <= b THEN a ELSE b
Larger(a, b) == IF a >= b THEN a ELSE b

\* what get_av_stick_pos is given by a corner SWI and by *JoystickReInit
\* after its test runs have left b
CornerCached(run) ==
  Cached(Sticks, run, 0, x_axis, y_axis, axes_mask, smooth, cal.x_smooth,
         cal.y_smooth, tolerance, max_wait)

CornerCycles(run) ==
  get_av_stick_pos(Sticks, {}, run, 0, x_axis, y_axis, axes_mask, smooth,
                   cal.x_smooth, cal.y_smooth, tolerance, max_wait).n

ReInitTests(a, run) ==
  reinit_tests(ReInitSet(a), run, x_axis, y_axis, cal, tolerance, max_wait)

ReInitCached(sticks, run, b) ==
  Cached(sticks, run, b.n, b.x_axis, b.y_axis, axes_mask', smooth, b.x_smooth,
         b.y_smooth, tolerance, max_wait)

ReInitCycles(sticks, run, b) ==
  get_av_stick_pos(sticks, {}, run, b.n, b.x_axis, b.y_axis, axes_mask',
                   smooth, b.x_smooth, b.y_smooth, tolerance, max_wait).n - b.n

CornerStep(run) ==
  /\ last'.op \in {"CalibrateTopRight", "CalibrateBottomLeft"}
  /\ \/ Joystick_CalibrateTopRight(run, TRUE)
     \/ Joystick_CalibrateBottomLeft(run, TRUE)

ReInitStep(a, run) == last'.op = "JoystickReInit" /\ JoystickReInit(a, run)

\* the deviations a step has stored or returned, against those wanted:
\* want(seq, ax, s, k) for the X axis and for the Y axis
DeviationsAt(seq, k, sticks, xdev, ydev, XWant(_, _, _, _), YWant(_, _, _, _)) ==
  \A s \in sticks :
    /\ xdev[s] = XWant(seq, "x_axis", s, k)
    /\ ydev[s] = YWant(seq, "y_axis", s, k)

Deviations(seq, sticks, xs, ys, xdev, ydev, XWant(_, _, _, _), YWant(_, _, _, _)) ==
  \A k \in {SettleCycles(seq, sticks, xs, ys)} :
    DeviationsAt(seq, k, sticks, xdev, ydev, XWant, YWant)

SmallerSide(seq, ax, s, k) == Smaller(Below(seq, ax, s, k), Above(seq, ax, s, k))
LargerSide(seq, ax, s, k) == Larger(Below(seq, ax, s, k), Above(seq, ax, s, k))

ReInitDeviations(sticks, run, b, Want(_, _, _, _)) ==
  \A seq \in {ReInitCached(sticks, run, b)} :
    Deviations(seq, sticks, b.x_smooth, b.y_smooth, cal'.x_ctr_deadz,
               cal'.y_ctr_deadz, Want, Want)

\* the biased deviations of the corner SWIs: on the lower side for X and on
\* the upper side for Y at the top right, the other way round at the bottom
\* left
BiasedDeviations(run) ==
  /\ (last'.op = "CalibrateTopRight" /\ Joystick_CalibrateTopRight(run, TRUE)) =>
       \A seq \in {CornerCached(run)} :
         Deviations(seq, Sticks, cal.x_smooth, cal.y_smooth,
                    last'.x_jitdist, last'.y_jitdist, Below, Above)
  /\ (last'.op = "CalibrateBottomLeft"
        /\ Joystick_CalibrateBottomLeft(run, TRUE)) =>
       \A seq \in {CornerCached(run)} :
         Deviations(seq, Sticks, cal.x_smooth, cal.y_smooth,
                    last'.x_jitdist, last'.y_jitdist, Above, Below)

AveragedAt(seq, k, sticks, n, xarr, yarr, xa, ya) ==
  /\ k >= 2
  /\ k <= SETTLE_LOOPS
  /\ n = k + NUM_TEST_RUNS
  /\ n >= 34
  /\ n <= 40
  /\ \A s \in sticks :
       /\ xarr[s] = Mean(seq, "x_axis", s, k)
       /\ yarr[s] = Mean(seq, "y_axis", s, k)
  /\ xa = seq[k + NUM_TEST_RUNS + 1].x_axis
  /\ ya = seq[k + NUM_TEST_RUNS + 1].y_axis

Averaged(seq, sticks, xs, ys, n, xarr, yarr, xa, ya) ==
  \A k \in {SettleCycles(seq, sticks, xs, ys)} :
    AveragedAt(seq, k, sticks, n, xarr, yarr, xa, ya)

ReInitAveraged(sticks, run, b) ==
  \A seq \in {ReInitCached(sticks, run, b)} :
    Averaged(seq, sticks, b.x_smooth, b.y_smooth,
             ReInitCycles(sticks, run, b), cal'.x_ctr, cal'.y_ctr, x_axis',
             y_axis')

\* C28: get_av_stick_pos leaves its settle phase at the first cycle, after
\* the first, in which no stick asked for has lost a sample or moved on
\* either axis by more than twice its smoothing width, and after 8 cycles
\* at the latest; it then makes 32 cycles more, 34 to 40 in all, and the
\* centre it returns is the sum of what those 32 cycles cached, divided by
\* 32 and truncated.
C28_SettleThenAverage ==
  [][\A run \in AvRuns :
       /\ CornerStep(run) =>
            \A seq \in {CornerCached(run)} :
              Averaged(seq, Sticks, cal.x_smooth, cal.y_smooth,
                       CornerCycles(run), last'.x_array, last'.y_array,
                       x_axis', y_axis')
       /\ \A a \in AvReInitArgs : ReInitStep(a, run) =>
            \A b \in {ReInitTests(a, run)} :
              ReInitAveraged(ReInitSet(a), run, b)]_vars

\* the first call was a corner SWI on the run whose second cycle loses a
\* sample of stick 0 and whose third moves its Y from 20 to 40: the mean of
\* Y lies between the two, and stick 1, not read, kept REINIT_AXIS
C28_Witness ==
  /\ last.op = "CalibrateTopRight"
  /\ used.calls = 1
  /\ last.y_array[0] > 20
  /\ last.y_array[0] < 40
  /\ last.x_array[1] = REINIT_AXIS

----------------------------------------------------------------------------
\* The timing loop, looked at from outside

\* the sample at which an axis that completes d ticks after the strobe is
\* seen to have completed: the time t of the sample and the gap since the
\* sample before it
RECURSIVE SeenAt(_, _, _, _)
SeenAt(hw, d, e, i) ==
  IF e + StepAt(hw, i) >= d
  THEN [t |-> e + StepAt(hw, i), gap |-> StepAt(hw, i)]
  ELSE SeenAt(hw, d, e + StepAt(hw, i), i + 1)

Seen(hw, k) == SeenAt(hw, hw.done[k], 0, 1)

CachedAxis(k, xa, ya) ==
  IF k \in {PC_JOY_A_X, PC_JOY_B_X} THEN xa[StickOfBit(k)]
  ELSE ya[StickOfBit(k)]

\* the axes the timing loop st stopped with has seen completed
SeenCompleted(st) == axes_mask \ st.mask

TimingOf(hw) == read_timing(axes_mask, hw, tolerance, max_wait)

\* C29: in an acquisition, an axis asked for and seen completed at a sample
\* taken within the tolerance of the sample before it gets a new raw timing,
\* the time of that sample; seen completed at a sample taken later than
\* that, it gets none, its stick is reported lost, its cached value stays,
\* and it is not reported as timed out.
C29_WithinTolerance ==
  [][\A hw \in AcqCycles : AcquisitionStep(hw) =>
       \A st \in {TimingOf(hw)} : \A k \in SeenCompleted(st) :
         \A seen \in {Seen(hw, k)} :
           IF seen.gap <= tolerance
           THEN /\ st.new[k] # UINT_MAX
                /\ seen.t < TIMER_PERIOD => st.new[k] = seen.t
           ELSE /\ st.new[k] = UINT_MAX
                /\ StickOfBit(k) \in st.sticks_lost
                /\ CachedAxis(k, x_axis', y_axis') = CachedAxis(k, x_axis, y_axis)
                /\ k \notin read_joystick(axes_mask, hw, x_axis, y_axis, smooth,
                                           cal.x_smooth, cal.y_smooth,
                                           tolerance, max_wait).mask]_vars

\* an acquisition lost X of stick 0, seen 50 ticks after the sample before,
\* and timed Y at 90
C29_Witness ==
  /\ used.reads = 1
  /\ ~AcquisitionRunning
  /\ cal.x_smooth[0] = 0
  /\ x_axis[0] = cal.x_ctr[0]
  /\ y_axis[0] = 90

\* every sample the timing loop takes from st on, while the timer has
\* wrapped at most once, computes the ticks since the strobe and since the
\* sample before it
RECURSIVE TimedTruly(_, _, _, _)
TimedTruly(hw, tol, mw, st) ==
  IF st.mask # {} /\ LtU(st.wait, mw)
  THEN \A st2 \in {read_loop_body(hw, tol, st)} :
         /\ st2.elapsed <= hw.start + TIMER_PERIOD =>
              /\ st2.wait = st2.elapsed
              /\ st2.interval = StepAt(hw, st.i)
         /\ TimedTruly(hw, tol, mw, st2)
  ELSE TRUE

\* C30 (as stated): in an acquisition, at every sample taken before IOC
\* timer 0 has wrapped a second time, the elapsed time and the interval
\* computed are the ticks since the strobe and since the sample before it.
C30_AsStated ==
  [][\A hw \in AcqCycles : AcquisitionStep(hw) =>
       TimedTruly(hw, tolerance, max_wait, read_start(axes_mask, hw))]_vars

----------------------------------------------------------------------------
\* The end of the timing loop

\* from the sample st on, the timing loop goes on exactly until every axis
\* asked for has completed or mw ticks or more have passed since the strobe
RECURSIVE EndsAsStated(_, _, _, _)
EndsAsStated(hw, tol, mw, st) ==
  IF st.mask = {} \/ st.elapsed >= mw
  THEN ~LtU(st.wait, mw) \/ st.mask = {}
  ELSE /\ LtU(st.wait, mw)
       /\ EndsAsStated(hw, tol, mw, read_loop_body(hw, tol, st))

\* C31 (as stated): whatever the timeout configured and whatever the
\* hardware does, the timing loop of a deferred acquisition stops, at the
\* first sample at which every axis asked for has completed or the time
\* since the strobe has reached the timeout.
C31_AsStated ==
  [][\A hw \in WaitCycles :
       AcquisitionRunning /\ doread_finish(hw) =>
         EndsAsStated(hw, tolerance, max_wait, read_start(axes_mask, hw))]_vars

----------------------------------------------------------------------------
\* The axes left out of acquisitions

\* axis bit k is returned as timed out by a cycle on hw that asks for the
\* axes of sticks
TimedOutIn(k, sticks, hw) ==
  k \in read_timing(StickMask(sticks), hw, tolerance, max_wait).mask

\* the cached timings of the axes acquisitions leave out stay
ExcludedKept ==
  \A k \in AxisBits \ axes_mask :
    CachedAxis(k, x_axis', y_axis') = CachedAxis(k, x_axis, y_axis)

\* C32: *JoystickReInit of a set of sticks leaves an axis of those sticks
\* out of axes_mask exactly if every one of its 32 test cycles returned it
\* as timed out, and keeps the bits of the other sticks; nothing else
\* changes axes_mask; a deferred acquisition and the averaging of a corner
\* call take no timing for an axis that is not in axes_mask.
C32_Exclusion ==
  [][/\ \A a \in MaskReInitArgs, run \in MaskRuns :
          last'.op = "JoystickReInit" /\ JoystickReInit(a, run) =>
            \A k \in AxisBits :
              IF StickOfBit(k) \in ReInitSet(a)
              THEN k \notin axes_mask' <=>
                     \A i \in 0 .. NUM_TEST_RUNS - 1 :
                       TimedOutIn(k, ReInitSet(a), RunAt(run, i))
              ELSE k \in axes_mask' <=> k \in axes_mask
     /\ axes_mask' # axes_mask => last'.op = "JoystickReInit"
                                    /\ used'.calls = used.calls + 1
     /\ \A hw \in MaskCycles : AcquisitionStep(hw) =>
          /\ ExcludedKept
          /\ \A k \in AxisBits \ axes_mask : RawTiming(hw, k) = UINT_MAX
     /\ TopRightStep => ExcludedKept]_vars

\* after "*JoystickReInit 1" on hardware on which X of stick B completes in
\* one cycle of three and Y never, a deferred acquisition on hardware on
\* which all axes complete has timed X of stick B and left Y alone
C32_Witness ==
  /\ axes_mask = {PC_JOY_A_X, PC_JOY_A_Y, PC_JOY_B_X}
  /\ used.calls = 1
  /\ used.reads = 1
  /\ ~AcquisitionRunning
  /\ x_axis[1] # cal.x_ctr[1]
  /\ y_axis[1] = cal.y_ctr[1]

----------------------------------------------------------------------------
\* The direction of the two axes

\* min <= ctrLow <= ctr <= ctrHigh <= max, and neither scaler is zero
WellFormed(min, low, ctr, high, max, low_scaler, high_scaler) ==
  /\ LeU(min, low) /\ LeU(low, ctr) /\ LeU(ctr, high) /\ LeU(high, max)
  /\ low_scaler # 0 /\ high_scaler # 0

WellFormedX(c, s) ==
  WellFormed(c.x_min[s], c.x_ctr_low[s], c.x_ctr[s], c.x_ctr_high[s],
             c.x_max[s], c.x_low_scaler[s], c.x_high_scaler[s])

WellFormedY(c, s) ==
  WellFormed(c.y_min[s], c.y_ctr_low[s], c.y_ctr[s], c.y_ctr_high[s],
             c.y_max[s], c.y_low_scaler[s], c.y_high_scaler[s])

\* C33: under a well-formed calibration with non-zero scalers, a timing
\* above ctrHigh converts to an X at or above the centre output and to a Y
\* at or below it, and a timing below ctrLow to an X at or below the centre
\* output and to a Y at or above it, in the 8-bit form (centre 0) and in the
\* 16-bit form (centre 0x7fff); so it is for the timings cached.
C33_Directions ==
  \A s \in Sticks : \A raw \in ScaleRaws \cup {x_axis[s], y_axis[s]} :
    /\ WellFormedX(cal, s) =>
         /\ GtU(raw, cal.x_ctr_high[s]) =>
              x8(cal, s, raw) >= 0 /\ x16(cal, s, raw) >= 32767
         /\ LtU(raw, cal.x_ctr_low[s]) =>
              x8(cal, s, raw) <= 0 /\ x16(cal, s, raw) <= 32767
    /\ WellFormedY(cal, s) =>
         /\ GtU(raw, cal.y_ctr_high[s]) =>
              y8(cal, s, raw) <= 0 /\ y16(cal, s, raw) <= 32767
         /\ LtU(raw, cal.y_ctr_low[s]) =>
              y8(cal, s, raw) >= 0 /\ y16(cal, s, raw) >= 32767

\* a 16-bit Read answered from a timing cached above ctrHigh on both axes,
\* under a well-formed calibration: X above 0x7fff and Y below it
C33_Witness ==
  /\ last.op = "Read"
  /\ last.err = "none"
  /\ WellFormedX(cal, 0) /\ WellFormedY(cal, 0)
  /\ GtU(x_axis[0], cal.x_ctr_high[0])
  /\ GtU(y_axis[0], cal.y_ctr_high[0])
  /\ last.r0 = Make32(x16(cal, 0, x_axis[0]), y16(cal, 0, y_axis[0]))
  /\ Hi16(last.r0) > 32767
  /\ Lo16(last.r0) < 32767

----------------------------------------------------------------------------
\* The polling delay

\* the poll interval configured, in centiseconds
PollInterval == poll_freq + 1

\* the interval -poll asks for, as a signed number
Requested(a) == eval_expr(a.poll)

\* C34: the poll interval configured is never below 2 centiseconds; a
\* *JoystickConfig that asks for an interval below 2 (0 and negative ones
\* included) and returns no error leaves it at 2; *JoystickConfig with no
\* arguments shows the interval configured.
C34_PollAtLeastTwo ==
  /\ [](PollInterval >= 2)
  /\ [][\A a \in PollConfigArgs, ok1 \in BOOLEAN, ok2 \in BOOLEAN :
          JoystickConfig(a, ok1, ok2) =>
            /\ (Given(a.poll) /\ Requested(a) < 2 /\ last'.err = "none") =>
                 PollInterval' = 2
            /\ a = ConfigNone =>
                 /\ last'.shown[6] = PollInterval
                 /\ PollInterval' = PollInterval]_vars

\* after "-poll 0" the interval shown is 2
C34_Witness ==
  /\ last.op = "JoystickConfig"
  /\ last.shown # << >>
  /\ last.shown[6] = 2
  /\ poll_freq = 1
  /\ used.calls = 2

\* the poll interval a *JoystickConfig -poll asks for, once raised to the
\* minimum, as the delay passed to OS_CallEvery
Wanted(a) == IF Requested(a) < 2 THEN 1 ELSE Requested(a) - 1

\* C35: a *JoystickConfig -poll that changes the interval while polling is
\* on registers the ticker anew with the new delay and polling stays on;
\* while polling is off it only stores the interval.  If the host refuses
\* to remove the old ticker, the interval stored, the ticker and the
\* polling flag stay as they were; if it refuses to register the new one,
\* polling is off and no ticker is left.  Both return the host's error.
C35_Rehook ==
  [][\A a \in PollConfigArgs \ {ConfigNone}, ok1 \in BOOLEAN, ok2 \in BOOLEAN :
       (JoystickConfig(a, ok1, ok2) /\ Wanted(a) # poll_freq) =>
         /\ (polling_stick /\ ok1 /\ ok2) =>
              /\ polling_stick'
              /\ host'.tickers = 1
              /\ host'.period = Wanted(a)
              /\ poll_freq' = Wanted(a)
              /\ last'.err = "none"
         /\ ~polling_stick =>
              /\ poll_freq' = Wanted(a)
              /\ ~polling_stick'
              /\ host' = host
              /\ last'.err = "none"
         /\ (polling_stick /\ ~ok1) =>
              /\ poll_freq' = poll_freq
              /\ polling_stick'
              /\ host' = host
              /\ host.period = poll_freq
              /\ last'.err = "os_error"
         /\ (polling_stick /\ ok1 /\ ~ok2) =>
              /\ ~polling_stick'
              /\ host'.tickers = 0
              /\ last'.err = "os_error"]_vars

\* the host refused to remove the ticker for "-poll 3" while polling was
\* on: polling goes on with the default delay
C35_Witness ==
  /\ last.op = "JoystickConfig"
  /\ last.err = "os_error"
  /\ polling_stick
  /\ host.tickers = 1
  /\ host.period = POLL_FREQUENCY - 1
  /\ poll_freq = POLL_FREQUENCY - 1
  /\ used.fails = 1

----------------------------------------------------------------------------
\* Unloading

\* C36: when MicoJoy_finalise returns no error the host holds no handler of
\* the module any more: not the pollstick ticker, not a callback still
\* queued, not the stoppoll ticker; when the host refuses to remove the
\* pollstick ticker or the queued callback, finalise returns that error and
\* the module stays loaded.
C36_NothingRegistered ==
  [][\A fail \in 0 .. 3 : MicoJoy_finalise(fail) =>
       /\ last'.err = "none" =>
            /\ host'.tickers = 0
            /\ host'.callbacks = 0
            /\ ~host'.monitor
       /\ fail \in {1, 2} => last'.err = "os_error" /\ host'.monitor
       /\ fail = 1 => host' = host
       /\ fail = 0 => last'.err = "none"]_vars

\* the module was unloaded while polling with a callback queued that never
\* ran: the host holds nothing
C36_Witness ==
  /\ last.op = "finalise"
  /\ last.err = "none"
  /\ ~callback_free
  /\ swi_in_last_min
  /\ host.tickers = 0
  /\ host.callbacks = 0
  /\ ~host.monitor

----------------------------------------------------------------------------
\* The coefficients and the data they are worked out from

CtrDz(deadz) == IF ctr_zones THEN deadz ELSE 0

\* the derived values of one axis are those of its calibration data
AxisInSync(low, high, low_scaler, high_scaler, min, ctr, max, ctrdz, enddz) ==
  /\ low = Sub32(ctr, CtrDz(ctrdz))
  /\ high = Add32(ctr, CtrDz(ctrdz))
  /\ low_scaler = ExpectedScaler(Sub32(low, Add32(min, EndDz(enddz))))
  /\ high_scaler = ExpectedScaler(Sub32(Sub32(max, EndDz(enddz)), high))

InSync(s) ==
  /\ AxisInSync(cal.x_ctr_low[s], cal.x_ctr_high[s], cal.x_low_scaler[s],
                cal.x_high_scaler[s], cal.x_min[s], cal.x_ctr[s], cal.x_max[s],
                cal.x_ctr_deadz[s], cal.x_end_deadz[s])
  /\ AxisInSync(cal.y_ctr_low[s], cal.y_ctr_high[s], cal.y_low_scaler[s],
                cal.y_high_scaler[s], cal.y_min[s], cal.y_ctr[s], cal.y_max[s],
                cal.y_ctr_deadz[s], cal.y_end_deadz[s])

\* C37: whenever no corner calibration is pending, ctrLow, ctrHigh and the
\* two scalers of every axis are the values recalc_coefficients gives for
\* the calibration data and the zone switches as they are now.
C37_InSync == calib_status = CALIB_NONE => \A s \in Sticks : InSync(s)

\* both corners were calibrated, one after the other, and the limits are no
\* longer the guessed ones
C37_Witness ==
  /\ calib_status = CALIB_NONE
  /\ last.op = "CalibrateBottomLeft"
  /\ last.before = CALIB_TOP_RIGHT
  /\ used.calls = 2
  /\ cal.x_max[0] # Mul32(cal.x_ctr[0], 2)
  /\ InSync(0)

----------------------------------------------------------------------------
\* The refused Read

\* C38: a Read that returns the CalibrationIncomplete error changes
\* nothing in the module or at the host: swi_in_last_min is not set, no
\* ticker is registered, the cached timings are not set to the centres.
C38_RefusedReadFrame ==
  [][\A s \in ReadSticks, rc \in ReasonCodes, joy \in Ports, ok \in BOOLEAN :
       (Joystick_Read(s, rc, joy, ok) /\ last'.err = "error_calib") =>
         /\ swi_in_last_min' = swi_in_last_min
         /\ polling_stick' = polling_stick
         /\ host' = host
         /\ x_axis' = x_axis /\ y_axis' = y_axis
         /\ UNCHANGED <<cal, axes_mask, calib_status, callback_pending,
                        callback_free, cfgvars, doread, used>>]_vars

\* a Read was refused after a corner call had stopped polling: the monitor
\* has nothing noted, polling is still off and the cached timings are those
\* of the corner, not the centres
C38_Witness ==
  /\ last.op = "Read"
  /\ last.err = "error_calib"
  /\ calib_status # CALIB_NONE
  /\ ~swi_in_last_min
  /\ ~polling_stick
  /\ host.tickers = 0
  /\ x_axis[0] # cal.x_ctr[0]

----------------------------------------------------------------------------
\* The callback that runs after polling has stopped

\* an activation of doread_handler that found polling off is running
Skipping == doread # << >> /\ doread[Len(doread)] = "skip"

\* C39: a callback entered while polling is off goes on without reading
\* the gameport; when it ends the cached timings and the calibration are
\* as they were, no acquisition was made, and callback_free is set, so the
\* next tick may queue a callback again.
C39_SkipFreesSlot ==
  [][/\ (doread_enter /\ ~polling_stick) =>
          /\ doread'[Len(doread')] = "skip"
          /\ ~callback_pending'
          /\ x_axis' = x_axis /\ y_axis' = y_axis
     /\ \A hw \in PollCycles : (Skipping /\ doread_finish(hw)) =>
          /\ x_axis' = x_axis /\ y_axis' = y_axis
          /\ cal' = cal
          /\ used'.reads = used.reads
          /\ callback_free'
          /\ MayAddCallBack'
          /\ Len(doread') = Len(doread) - 1]_vars

\* the callback queued by a tick was entered after a *JoystickConfig -poll
\* had lost the ticker (the host refused to register it anew)
C39_Witness ==
  /\ Skipping
  /\ last.op = "JoystickConfig"
  /\ last.err = "os_error"
  /\ ~polling_stick
  /\ ~callback_free
  /\ ~callback_pending
  /\ host.tickers = 0

----------------------------------------------------------------------------
(* The two-stage monitor under a host that keeps its word.                 *)
(* Joystick_Read starts the monitor, the ticks request acquisitions, the   *)
(* activations drain them, the stop ticker ends the monitor and            *)
(* MicoJoy_finalise unhooks everything, each with the host agreeing or     *)
(* refusing.  The host runs a callback it has queued, and an activation of *)
(* doread_handler that has begun runs on to its end.                       *)

\* doread_handler returns: the activation ends and allows another request
doread_return ==
  /\ doread # << >>
  /\ doread[Len(doread)] # "hung"
  /\ doread[Len(doread)] = "read" => Budget
  /\ doread' = SubSeq(doread, 1, Len(doread) - 1)
  /\ callback_free' = TRUE

DrainNext ==
  \/ \E s \in ReadSticks, joy \in Ports, ok \in HostOutcomes :
       Joystick_Read(s, 0, joy, ok)
  \/ \E a \in WaitConfigArgs : JoystickConfig(a, TRUE, TRUE)
  \/ \E ok \in HostOutcomes : pollstick_handler(ok)
  \/ \E ok \in HostOutcomes : stoppoll_handler(ok)
  \/ doread_enter
  \/ \E hw \in PollCycles \cup WaitCycles : doread_finish(hw)
  \/ \E fail \in FinaliseFails : MicoJoy_finalise(fail)

\* the host runs the callback it has queued, and the foreground lets an
\* activation that can return do so
DrainSpec ==
  /\ Init
  /\ [][DrainNext]_vars
  /\ WF_vars(doread_enter)
  /\ WF_<<doread, callback_free>>(doread_return)

----------------------------------------------------------------------------
\* The request slot, in the long run

\* the module is loaded
Loaded == host.monitor

\* the behaviours checked make no acquisition after MaxOps operations: a
\* request or an activation that has yet to acquire waits for ever
Exhausted == ~Budget /\ (doread = << >> \/ doread[Len(doread)] # "hung")

\* C40 (as stated): while the module is loaded, and given that the host
\* runs the callbacks it has queued and that an activation once begun runs
\* to its end, whenever callback_free is clear it is set again later on;
\* and a tick whose OS_AddCallBack the host refused leaves callback_free
\* set and nothing queued.
C40_AsStated ==
  /\ (Loaded /\ ~callback_free) ~> (callback_free \/ ~Loaded \/ Exhausted)
  /\ [][(TickStep(FALSE) /\ callback_free) =>
          /\ callback_free'
          /\ ~callback_pending'
          /\ host' = host]_vars
====
